---- MODULE Spec2Model ----
(***************************************************************************)
(* A model of the reverse-mode AD transform engine of EnzymeLogic.cpp:     *)
(* the memoizing augmented/gradient builders, the per-instruction adjoint  *)
(* rules, the cacheability analysis, the tape slot bookkeeping and the     *)
(* gradient calling convention.                                            *)
(***************************************************************************)
EXTENDS Integers, Sequences, FiniteSets, TLC

(***************************************************************************)
(* Bounds of the model.                                                    *)
(***************************************************************************)
MaxCalls == 1   \* call sites per primal function body
MaxTop == 2     \* driver-level calls of the augmented builder in one run
MaxBuilds == 1  \* driver-level calls when both builders run
MaxDepth == 8   \* cap on the builder recursion depth
MaxInsts == 2   \* binary operators in a differentiated expression
MaxOthers == 1  \* instructions besides the load in an analysed function
MaxCached == 2  \* instructions of a function whose tape is followed
MaxParams == 2  \* parameters of a callee whose gradient is called
MaxBlocks == 3  \* basic blocks of a function whose control flow is analysed

VARIABLES
  prog,            \* the primal module: bodies (call sites) and metadata
  funcs,           \* function objects created in the module, by identity
  augcache,        \* cachedfunctions of CreateAugmentedPrimal
  cachedfinished,  \* cachedfinished of CreateAugmentedPrimal
  gradcache,       \* cachedfunctions of CreatePrimalAndGradient
  stack,           \* activation records of the builders (C++ call stack)
  results,         \* what each driver-level call returned
  started,         \* body constructions begun, in order
  selfref,         \* keys requested again while under construction
  err,             \* "none", or the fatal error that aborted the run
  diff,            \* state of the reverse pass over one expression
  lmap,            \* state of the uncacheable-load analysis
  tape,            \* state of the tape slot bookkeeping of one function
  sig,             \* state of the gradient calling convention check
  cfg,             \* state of the unreachable-block analysis and reverse blocks
  heap             \* state of the allocation handling of one function

vars == <<prog, funcs, augcache, cachedfinished, gradcache, stack, results,
          started, selfref, err, diff, lmap, tape, sig, cfg, heap>>

bvars == <<prog, funcs, augcache, cachedfinished, gradcache, stack, results,
           started, selfref, err>>

(***************************************************************************)
(* Values.                                                                 *)
(***************************************************************************)
Fns == {"f", "g"}
MDKinds == {"none", "same", "other"}
Modes == {"augment", "replace", "pure"}
TypeInfo0 == "ti"

\* IR types, as far as the builders look at them
Ty(k, elems) == [k |-> k, elems |-> elems]
NoType == Ty("null", <<>>)        \* a null Type*
I8Ptr == Ty("i8*", <<>>)
FloatTy == Ty("float", <<>>)
UserTape == Ty("user", <<>>)      \* a tape field of a user-supplied augmented function that is no struct
StructTy(elems) == Ty("struct", elems)
\* line 2915: the tape of a user-supplied augmented function is field 0 of
\* whatever it returns
UserTapes == {UserTape, StructTy(<<FloatTy>>)}
isStructTy(t) == t.k = "struct"

Site == [callee : Fns, constArg : BOOLEAN, mode : Modes]

RECURSIVE SeqsUpTo(_, _)
SeqsUpTo(S, n) ==
  IF n = 0 THEN {<<>>}
  ELSE LET shorter == SeqsUpTo(S, n - 1)
       IN shorter \cup {Append(s, x) : s \in {t \in shorter : Len(t) = n - 1}, x \in S}

EmptyMap == [x \in {} |-> 0]

AugKey_NoReturnUsed(fn, ca, ua, dr, ru, ti) ==
  [fn |-> fn, constant_args |-> ca, uncacheable_args |-> ua,
   differentialReturn |-> dr, returnUsed |-> TRUE, typeInfo |-> ti]

\* the key tuple of CreateAugmentedPrimal's caches
AugKey(fn, ca, ua, dr, ru, ti) ==
  [fn |-> fn, constant_args |-> ca, uncacheable_args |-> ua,
   differentialReturn |-> dr, returnUsed |-> ru, typeInfo |-> ti]

\* the key tuple of CreatePrimalAndGradient's cache
GradKey(fn, ca, ua, ru, dr, dp, tl, aa, ti) ==
  [fn |-> fn, constant_args |-> ca, uncacheable_args |-> ua,
   returnUsed |-> ru, differentialReturn |-> dr, dretPtr |-> dp,
   topLevel |-> tl, additionalArg |-> aa, typeInfo |-> ti]

\* a function object of the module
FnObj(name, key, retTape, calls) ==
  [name |-> name, key |-> key, alive |-> TRUE, retTape |-> retTape, calls |-> calls]

\* Function::users: the call instructions of live functions that call id
Users(fs, id) ==
  UNION {{<<i, j>> : j \in {k \in DOMAIN fs[i].calls : fs[i].calls[k] = id}} :
           i \in {x \in DOMAIN fs : fs[x].alive}}

getNumUses(fs, id) == Cardinality(Users(fs, id))

\* CallInst::setCalledFunction applied to every user of old
setCalledFunction(fs, old, new) ==
  [i \in DOMAIN fs |->
     [fs[i] EXCEPT !.calls = [j \in DOMAIN @ |-> IF @[j] = old THEN new ELSE @[j]]]]

\* insert_or_assign as written: the brace-less return makes it emplace only
insert_or_assign(map, key, val) ==
  IF key \in DOMAIN map THEN map ELSE map @@ (key :> val)

\* std::map operator[] assignment
MapAssign(map, key, val) ==
  [k \in (DOMAIN map) \cup {key} |-> IF k = key THEN val ELSE map[k]]

\* AugmentedReturn
AugmentedReturn(fn, tapeType) ==
  [fn |-> fn, tapeType |-> tapeType, tapeIndices |-> EmptyMap,
   subaugmentations |-> EmptyMap]

\* a null AugmentedReturn pointer
NoKey == AugKey("none", {}, {}, FALSE, FALSE, TypeInfo0)

Frame(kind, key, nf, pc, force, aug, req) ==
  [kind |-> kind, key |-> key, nf |-> nf, pc |-> pc, force |-> force,
   aug |-> aug, mallocs |-> <<>>, req |-> req]

\* the builder state threaded through one handler
Mach == [funcs |-> funcs, augcache |-> augcache, cachedfinished |-> cachedfinished,
         gradcache |-> gradcache, stack |-> stack, results |-> results,
         started |-> started, selfref |-> selfref, err |-> err]

Top(M) == M.stack[Len(M.stack)]
Pop(M) == [M EXCEPT !.stack = SubSeq(@, 1, Len(@) - 1)]
NewId(M) == Len(M.funcs) + 1
Fatal(M, why) == [M EXCEPT !.err = why]
Entered(M0, M1) == Len(M1.stack) > Len(M0.stack) \/ M1.err # "none"

\* GradientUtils::getIndex while no tape is set: a key keeps its slot, a new
\* key gets the next free index
getIndex(mapping, idx) ==
  IF idx \in DOMAIN mapping THEN mapping
  ELSE mapping @@ (idx :> Cardinality(DOMAIN mapping))

\* GradientUtils::addMalloc while no tape is set: the value joins the tape
addMalloc(mallocs, ty, idx) ==
  IF idx + 1 \in DOMAIN mallocs THEN [mallocs EXCEPT ![idx + 1] = ty]
  ELSE Append(mallocs, ty)

\* what a call site asks of its callee (handleAugmentedCallInst, 2156-2187)
subconstant_args(site) == IF site.constArg THEN {0} ELSE {}
SubAugKey(site) == AugKey(site.callee, subconstant_args(site), {}, TRUE, TRUE, TypeInfo0)

\* shouldAugmentCall: false for a readnone callee with float arguments
shouldAugmentCall(site) == site.mode # "pure"

HasAugmentMD(key) == key.constant_args = {} /\ prog.md[key.fn] # "none"

\* line 1548: the entry is reserved before any call site is transformed
ReserveEntry(cache, key, entry) == insert_or_assign(cache, key, entry)

UnderConstruction(stk, kind, key) ==
  \E i \in DOMAIN stk : stk[i].kind = kind /\ stk[i].key = key

AugCacheFind_Never(cache, key) == FALSE

AugCacheFind_Finished(cache, key) ==
  key \in DOMAIN cache /\ ~UnderConstruction(stack, "aug", key)

AugCacheFind_Reserved(cache, key) ==
  key \in DOMAIN cache /\ UnderConstruction(stack, "aug", key)

\* lines 1429-1433
AugCacheFind(cache, key) == key \in DOMAIN cache

GradCacheFind_Finished(cache, gkey) ==
  gkey \in DOMAIN cache /\ ~UnderConstruction(stack, "grad", gkey)

\* lines 3216-3218
GradCacheFind(cache, gkey) == gkey \in DOMAIN cache

IsRecursive_ForceOnly(fs, fn, force) == force

\* line 1686
IsRecursive(fs, fn, force) == getNumUses(fs, fn) > 0 \/ force

ReplaceCallers_None(fs, old, new) == fs

\* lines 1843-1849
ReplaceCallers(fs, old, new) == setCalledFunction(fs, old, new)

\* line 1856
ErasePlaceholder(fs, nf) == [fs EXCEPT ![nf].alive = FALSE]

\* CreateAugmentedPrimal up to the point where the body walk begins
CreateAugmentedPrimal(M, key, force, req) ==
  IF AugCacheFind(M.augcache, key)
  THEN [M EXCEPT !.selfref = IF UnderConstruction(M.stack, "aug", key)
                             THEN @ \cup {key} ELSE @]
  ELSE IF HasAugmentMD(key) THEN
    IF prog.md[key.fn] = "same"
    THEN [M EXCEPT
            !.funcs = Append(@, FnObj("fixaugmented", key, StructTy(<<>>), <<prog.found>>)),
            !.augcache = insert_or_assign(@, key, AugmentedReturn(NewId(M), NoType))]
    ELSE [M EXCEPT
            !.augcache = insert_or_assign(@, key, AugmentedReturn(prog.found, NoType))]
  ELSE IF Len(M.stack) >= MaxDepth THEN Fatal(M, "depth")
  ELSE [M EXCEPT
          !.funcs = Append(@, FnObj("placeholder", key, I8Ptr, <<>>)),
          !.augcache = ReserveEntry(@, key, AugmentedReturn(NewId(M), NoType)),
          !.cachedfinished = MapAssign(@, key, FALSE),
          !.stack = Append(@, Frame("aug", key, NewId(M), Len(prog.body[key.fn]), force, NoKey, req)),
          !.started = Append(@, [key |-> key, force |-> force])]

\* CreatePrimalAndGradient up to the point where the body walk begins
CreatePrimalAndGradient(M, gkey, augdata, req) ==
  IF GradCacheFind(M.gradcache, gkey)
  THEN [M EXCEPT !.selfref = IF UnderConstruction(M.stack, "grad", gkey)
                             THEN @ \cup {gkey} ELSE @]
  ELSE IF Len(M.stack) >= MaxDepth THEN Fatal(M, "depth")
  ELSE [M EXCEPT
          !.funcs = Append(@, FnObj("gradient", gkey, NoType, <<>>)),
          !.gradcache = insert_or_assign(@, gkey, NewId(M)),
          !.stack = Append(@, Frame("grad", gkey, NewId(M), Len(prog.body[gkey.fn]), FALSE, augdata, req)),
          !.started = Append(@, [key |-> gkey, force |-> FALSE])]

\* handleAugmentedCallInst from the return of the nested builder call on
AugAfterSub(M, ckey) ==
  LET fr == Top(M)
      newcalled == M.augcache[ckey].fn
      tpTy == M.funcs[newcalled].retTape
      map1 == getIndex(M.augcache[fr.key].tapeIndices, <<fr.pc, "Tape">>)
      map2 == getIndex(map1, <<fr.pc, "Self">>)
      m1 == addMalloc(fr.mallocs, tpTy, map2[<<fr.pc, "Tape">>])
      m2 == addMalloc(m1, FloatTy, map2[<<fr.pc, "Self">>])
  IN [M EXCEPT
        !.funcs[fr.nf].calls = Append(@, newcalled),
        !.augcache[fr.key].subaugmentations = insert_or_assign(@, fr.pc, ckey),
        !.augcache[fr.key].tapeIndices = map2,
        !.stack[Len(M.stack)] = [fr EXCEPT !.pc = @ - 1, !.mallocs = m2]]

\* the rest of handleGradientCallInst once the gradient callee is known
GradSiteDone(M, fnid) ==
  LET fr == Top(M)
  IN [M EXCEPT !.funcs[fr.nf].calls = Append(@, fnid),
               !.stack[Len(M.stack)].pc = @ - 1]

\* lines 3006-3014: the nested gradient request of a call site
GradCallGradient(M, tapeTy, subdata) ==
  LET fr == Top(M)
      site == prog.body[fr.key.fn][fr.pc]
      replaceFunction == fr.key.topLevel /\ site.mode = "replace"
      modifyPrimal == shouldAugmentCall(site) /\ ~replaceFunction
      gkey == GradKey(site.callee, subconstant_args(site), {}, replaceFunction, TRUE,
                      FALSE, replaceFunction \/ ~modifyPrimal, tapeTy, TypeInfo0)
      M1 == CreatePrimalAndGradient(M, gkey, subdata, <<>>)
  IN IF Entered(M, M1) THEN M1 ELSE GradSiteDone(M1, M1.gradcache[gkey])

\* lines 2872-2990: the augmented call and the tape of a call site
GradAfterAug(M, sk) ==
  LET fr == Top(M)
      e == M.augcache[sk]
      own == M.augcache[fr.aug].tapeIndices
      slotOk == /\ <<fr.pc, "Tape">> \in DOMAIN own
                /\ own[<<fr.pc, "Tape">>] + 1 \in DOMAIN fr.key.additionalArg.elems
      rawTy == IF fr.key.topLevel THEN M.funcs[e.fn].retTape
               ELSE fr.key.additionalArg.elems[own[<<fr.pc, "Tape">>] + 1]
      M1 == IF fr.key.topLevel
            THEN [M EXCEPT !.funcs[fr.nf].calls = Append(@, e.fn)]
            ELSE M
  IN IF ~fr.key.topLevel /\ ~slotOk THEN Fatal(M, "tape slot lookup missed")
     ELSE LET tapeTy == IF e.tapeType # NoType THEN e.tapeType ELSE rawTy
          IN IF ~isStructTy(tapeTy) THEN Fatal(M1, "tape is not a struct")
             ELSE GradCallGradient(M1, tapeTy, sk)

\* what the caller does when CreateAugmentedPrimal returns to it
AfterAugReturn(M, ckey, force, req) ==
  IF M.stack = <<>>
  THEN [M EXCEPT !.results = Append(@, [kind |-> "aug", req |-> req, force |-> force,
                                        fn |-> M.augcache[ckey].fn,
                                        tapeType |-> M.augcache[ckey].tapeType])]
  ELSE IF Top(M).kind = "aug" THEN AugAfterSub(M, ckey)
  ELSE GradAfterAug(M, ckey)

\* what the caller does when CreatePrimalAndGradient returns to it
AfterGradReturn(M, gkey, req) ==
  IF M.stack = <<>>
  THEN [M EXCEPT !.results = Append(@, [kind |-> "grad", req |-> req, force |-> FALSE,
                                        fn |-> M.gradcache[gkey], tapeType |-> NoType])]
  ELSE GradSiteDone(M, M.gradcache[gkey])

\* DerivativeMaker<AugmentedReturn*>::visitCallInst -> handleAugmentedCallInst
AugVisit(M) ==
  LET fr == Top(M)
      site == prog.body[fr.key.fn][fr.pc]
  IN IF ~shouldAugmentCall(site)
     THEN [M EXCEPT !.stack[Len(M.stack)].pc = @ - 1]
     ELSE LET M1 == CreateAugmentedPrimal(M, SubAugKey(site), FALSE, <<>>)
          IN IF Entered(M, M1) THEN M1 ELSE AugAfterSub(M1, SubAugKey(site))

\* handleGradientCallInst up to the nested builder calls
GradVisit(M) ==
  LET fr == Top(M)
      site == prog.body[fr.key.fn][fr.pc]
      replaceFunction == fr.key.topLevel /\ site.mode = "replace"
      modifyPrimal == shouldAugmentCall(site) /\ ~replaceFunction
  IN \* lines 3400-3401, 3623: the AugmentedReturn made from enzyme_augment
     \* metadata has an empty uncacheable_args_map (1473, 1477)
     IF fr.aug # NoKey /\ HasAugmentMD(fr.aug)
     THEN Fatal(M, "assert(uncacheable_args_map.find(orig))")
     ELSE IF ~modifyPrimal THEN GradCallGradient(M, NoType, NoKey)
     ELSE IF fr.key.topLevel
     THEN LET M1 == CreateAugmentedPrimal(M, SubAugKey(site), FALSE, <<>>)
          IN IF Entered(M, M1) THEN M1 ELSE GradAfterAug(M1, SubAugKey(site))
     ELSE IF fr.aug = NoKey \/ fr.pc \notin DOMAIN M.augcache[fr.aug].subaugmentations
     THEN Fatal(M, "assert(subdata)")
     ELSE GradAfterAug(M, M.augcache[fr.aug].subaugmentations[fr.pc])

\* CreateAugmentedPrimal from the end of the body walk to its return
AugFinish(M) ==
  LET fr == Top(M)
      key == fr.key
      tapeType == StructTy(fr.mallocs)
      reserved == M.augcache[key].fn
      recursive == IsRecursive(M.funcs, reserved, fr.force)
      NewF == NewId(M)
      fs1 == Append(M.funcs, FnObj("augmented", key,
                                   IF recursive THEN I8Ptr ELSE tapeType,
                                   M.funcs[fr.nf].calls))
      fs2 == ReplaceCallers(fs1, reserved, NewF)
      fs3 == ErasePlaceholder(fs2, fr.nf)
  IN Pop([M EXCEPT
            !.funcs = fs3,
            !.augcache[key].fn = NewF,
            !.augcache[key].tapeType = IF recursive THEN tapeType ELSE @,
            !.cachedfinished = insert_or_assign(@, key, TRUE)])

\* CreatePrimalAndGradient from the end of the body walk to its return
GradFinish(M) == Pop(M)

Install(M) ==
  /\ funcs' = M.funcs
  /\ augcache' = M.augcache
  /\ cachedfinished' = M.cachedfinished
  /\ gradcache' = M.gradcache
  /\ stack' = M.stack
  /\ results' = M.results
  /\ started' = M.started
  /\ selfref' = M.selfref
  /\ err' = M.err
  /\ UNCHANGED <<prog, diff, lmap, tape, sig, cfg, heap>>

\* the state of a part of the engine that is not running
Idle == [pc |-> -1]

Programs(modes, mds, cas) ==
  [body : [Fns -> SeqsUpTo([callee : Fns, constArg : cas, mode : modes], MaxCalls)],
   md : [Fns -> MDKinds] \cap {m \in [Fns -> MDKinds] : m["f"] = "none" /\ m["g"] \in mds},
   usertape : UserTapes,
   found : {1}]

BuildInit(modes, mds, cas) ==
  /\ prog \in Programs(modes, mds, cas)
  \* the return type of the named function matters when it differs from g's
  /\ prog.md["g"] # "other" => prog.usertape = UserTape
  /\ funcs = IF prog.md["g"] = "none" THEN <<>>
             ELSE <<FnObj("foundcalled", NoKey, prog.usertape, <<>>)>>
  /\ augcache = EmptyMap
  /\ cachedfinished = EmptyMap
  /\ gradcache = EmptyMap
  /\ stack = <<>>
  /\ results = <<>>
  /\ started = <<>>
  /\ selfref = {}
  /\ err = "none"
  /\ diff = Idle /\ lmap = Idle /\ tape = Idle /\ sig = Idle /\ cfg = Idle /\ heap = Idle

Running == err = "none" /\ stack # <<>>

\* the driver calls CreateAugmentedPrimal
DriverAug(rus, forces) ==
  /\ err = "none" /\ stack = <<>>
  /\ \E fn \in Fns, ru \in rus, force \in forces :
       LET key == AugKey(fn, {}, {}, TRUE, ru, TypeInfo0)
           req == <<fn, {}, {}, TRUE, ru, TypeInfo0>>
           M1 == CreateAugmentedPrimal(Mach, key, force, req)
       IN Install(IF Entered(Mach, M1) THEN M1 ELSE AfterAugReturn(M1, key, force, req))

\* the driver calls CreatePrimalAndGradient at top level
TopAug == Len(results) < MaxTop /\ DriverAug(BOOLEAN, {FALSE})

TopAugForce == Len(results) < MaxBuilds /\ DriverAug({TRUE}, BOOLEAN)

TopGrad ==
  /\ err = "none" /\ stack = <<>> /\ Len(results) < MaxBuilds
  /\ \E fn \in Fns, ru \in BOOLEAN :
       LET gkey == GradKey(fn, {}, {}, ru, TRUE, FALSE, TRUE, NoType, TypeInfo0)
           req == <<fn, {}, {}, ru, TRUE, FALSE, TRUE, NoType, TypeInfo0>>
           M1 == CreatePrimalAndGradient(Mach, gkey, NoKey, req)
       IN Install(IF Entered(Mach, M1) THEN M1 ELSE AfterGradReturn(M1, gkey, req))

\* the augmented builder transforms the next call site of its body walk
AugVisitCall ==
  /\ Running /\ Top(Mach).kind = "aug" /\ Top(Mach).pc >= 1
  /\ Install(AugVisit(Mach))

\* the augmented builder finishes and returns into its caller
AugReturn ==
  /\ Running /\ Top(Mach).kind = "aug" /\ Top(Mach).pc = 0
  /\ Install(AfterAugReturn(AugFinish(Mach), Top(Mach).key, Top(Mach).force, Top(Mach).req))

\* the gradient builder transforms the next call site of its body walk
GradVisitCall ==
  /\ Running /\ Top(Mach).kind = "grad" /\ Top(Mach).pc >= 1
  /\ Install(GradVisit(Mach))

\* the gradient builder finishes and returns into its caller
GradReturn ==
  /\ Running /\ Top(Mach).kind = "grad" /\ Top(Mach).pc = 0
  /\ Install(AfterGradReturn(GradFinish(Mach), Top(Mach).key, Top(Mach).req))

\* the augmented builder alone, over modules with and without enzyme_augment
InitAug == BuildInit({"augment"}, MDKinds, BOOLEAN)
NextAug == TopAug \/ AugVisitCall \/ AugReturn
SpecAug == InitAug /\ [][NextAug]_vars

\* both builders, over modules without metadata
InitBuild == BuildInit(Modes, {"none"}, {FALSE})
NextBuild == TopAugForce \/ TopGrad \/ GradVisitCall \/ GradReturn \/ AugVisitCall \/ AugReturn
SpecBuild == InitBuild /\ [][NextBuild]_vars

\* driver-level requests for augmented primals before and after a gradient
\* has been built, over modules whose calls are all augmented
InitFrozen == BuildInit({"augment"}, {"none"}, {FALSE})
NextFrozen == TopAug \/ TopGrad \/ GradVisitCall \/ GradReturn \/ AugVisitCall \/ AugReturn
SpecFrozen == InitFrozen /\ [][NextFrozen]_vars

NoFatal == err = "none"

(***************************************************************************)
(* Properties of the memoizing builders.                                   *)
(***************************************************************************)
AugResults == {i \in DOMAIN results : results[i].kind = "aug"}
SameReturn(i, j) ==
  results[i].fn = results[j].fn /\ results[i].tapeType = results[j].tapeType

\* both calls asked for a function whose enzyme_augment metadata names a
\* function of another return type, with no constant argument
SharesUserAugmented(i, j) ==
  /\ results[i].req[1] = results[j].req[1]
  /\ prog.md[results[i].req[1]] = "other"
  /\ results[i].req[2] = {} /\ results[j].req[2] = {}
  /\ results[i].fn = prog.found /\ results[j].fn = prog.found

\* C1, as stated: two driver calls of CreateAugmentedPrimal with equal keys
\* return the same AugmentedReturn, and two with differing keys return
\* distinct function objects, with or without enzyme_augment metadata.
C1_DistinctPerKey ==
  \A i, j \in AugResults :
    /\ results[i].req = results[j].req => SameReturn(i, j)
    /\ results[i].req # results[j].req => results[i].fn # results[j].fn

\* C1, amended: equal keys return the same AugmentedReturn; differing keys
\* return distinct function objects unless both name a function whose
\* enzyme_augment metadata supplies an augmented function of another return
\* type, which every such key returns unchanged.
C1_DistinctUnlessUserSupplied ==
  \A i, j \in AugResults :
    /\ results[i].req = results[j].req => SameReturn(i, j)
    /\ results[i].req # results[j].req =>
          results[i].fn # results[j].fn \/ SharesUserAugmented(i, j)

\* two differing keys of a function with usable metadata were both served
C1_Witness ==
  \E i, j \in AugResults :
    /\ results[i].req # results[j].req
    /\ results[i].req[1] = results[j].req[1]
    /\ prog.md[results[i].req[1]] = "same"
    /\ results[i].fn # results[j].fn
    /\ funcs[results[i].fn].name = "fixaugmented"
    /\ funcs[results[j].fn].name = "fixaugmented"

FinishedAug == {k \in DOMAIN augcache : ~UnderConstruction(stack, "aug", k)}
BuiltAug == {k \in FinishedAug : funcs[augcache[k].fn].name = "augmented"}
ObjectsOf(key) == {i \in DOMAIN funcs : funcs[i].key = key}
LiveObjectsOf(key) == {i \in ObjectsOf(key) : funcs[i].alive}
CallsOf(i) == {funcs[i].calls[j] : j \in DOMAIN funcs[i].calls}
LiveCallees == UNION {CallsOf(i) : i \in {x \in DOMAIN funcs : funcs[x].alive}}

\* C2: once the construction of a key has finished, exactly one function
\* object of that key is left, it is the final function held by the cache,
\* the placeholder is erased and no call instruction refers to it any more;
\* and every gradient key has exactly one function object.
C2_OneFunctionPerKey ==
  /\ \A k \in FinishedAug \cap {started[i].key : i \in DOMAIN started} :
        /\ LiveObjectsOf(k) = {augcache[k].fn}
        /\ funcs[augcache[k].fn].name = "augmented"
        /\ \A i \in ObjectsOf(k) \ {augcache[k].fn} :
              funcs[i].name = "placeholder" /\ ~funcs[i].alive /\ i \notin LiveCallees
        /\ Cardinality(ObjectsOf(k)) = 2
  /\ \A gk \in DOMAIN gradcache :
        ObjectsOf(gk) = {gradcache[gk]} /\ funcs[gradcache[gk]].alive

\* a self-recursive function has been built: its final function calls itself
C2_Witness ==
  /\ stack = <<>>
  /\ \E k \in BuiltAug :
        /\ augcache[k].fn \in CallsOf(augcache[k].fn)
        /\ \E i \in ObjectsOf(k) : ~funcs[i].alive

FramesReserved ==
  \A i \in DOMAIN stack :
    IF stack[i].kind = "aug" THEN stack[i].key \in DOMAIN augcache
    ELSE stack[i].key \in DOMAIN gradcache

\* the keys the builders can be asked for: callee, constant argument set,
\* returnUsed for the augmented builder; callee, constant argument set,
\* returnUsed, topLevel and a tape type (none, or that of an augmented key)
\* for the gradient builder
AugKeySpace == Cardinality(Fns) * 2 * 2
GradKeySpace == Cardinality(Fns) * 2 * 2 * 2 * (1 + AugKeySpace)
Reserved == Cardinality(DOMAIN augcache) + Cardinality(DOMAIN gradcache)

RECURSIVE SitesLeft(_)
SitesLeft(stk) ==
  IF stk = <<>> THEN 0 ELSE stk[Len(stk)].pc + 1 + SitesLeft(SubSeq(stk, 1, Len(stk) - 1))

\* what is left to do: keys not yet reserved, then call sites not yet walked
Rank(stk, reserved) ==
  (AugKeySpace + GradKeySpace - reserved) * (MaxCalls + 2) + SitesLeft(stk)

\* C3: every builder has its cache entry reserved while it walks its body,
\* and every step of a build strictly decreases a natural-number measure
\* (keys not yet reserved, then call sites not yet walked), so every build
\* returns to the driver whatever cycles the call graph has.
C3_BuildersTerminate ==
  /\ [](FramesReserved /\ err = "none" /\ Rank(stack, Reserved) >= 0)
  /\ [][stack # <<>> => Rank(stack', Reserved') < Rank(stack, Reserved)]_vars

\* a build in which a key was requested again during its own construction
\* has returned to the driver
C3_Witness == stack = <<>> /\ results # <<>> /\ selfref # {}

\* C4: the body construction of a key is started at most once, and while it
\* runs the cache holds the reserved entry: the placeholder function and a
\* null tape type, which is what a recursive request receives.
C4_OneConstructionPerKey ==
  /\ \A i, j \in DOMAIN started : started[i].key = started[j].key => i = j
  /\ \A i \in DOMAIN stack :
        stack[i].kind = "aug" =>
          /\ stack[i].key \in DOMAIN augcache
          /\ augcache[stack[i].key].fn = stack[i].nf
          /\ funcs[stack[i].nf].name = "placeholder" /\ funcs[stack[i].nf].alive
          /\ augcache[stack[i].key].tapeType = NoType
          /\ cachedfinished[stack[i].key] = FALSE

\* a key under construction has been requested again and its caller holds a
\* call to the placeholder
C4_Witness ==
  \E i \in DOMAIN stack :
    /\ stack[i].kind = "aug"
    /\ stack[i].key \in selfref
    /\ stack[i].nf \in LiveCallees

Forced(k) == \E i \in DOMAIN started : started[i].key = k /\ started[i].force
Boxed(k) == funcs[augcache[k].fn].retTape = I8Ptr
Named(name) == {i \in DOMAIN funcs : funcs[i].alive /\ funcs[i].name = name}
MutualSite(mode) == [callee : Fns, constArg : {FALSE}, mode : {mode}]
IsMutual(mode) ==
  /\ Len(prog.body["f"]) = 1 /\ prog.body["f"][1] \in MutualSite(mode)
  /\ Len(prog.body["g"]) = 1 /\ prog.body["g"][1] \in MutualSite(mode)
  /\ prog.body["f"][1].callee = "g" /\ prog.body["g"][1].callee = "f"
FirstDone(kind) ==
  stack = <<>> /\ Len(results) = 1 /\ results[1].kind = kind /\ results[1].req[1] = "f"

\* C5: a finished augmented function returns its tape boxed as i8* with the
\* tape type recorded exactly when its key was requested again during its
\* own construction or the anonymous tape was forced, and otherwise returns
\* the tape struct inline with a null recorded tape type; for f and g that
\* call each other with the same keys a build of f leaves exactly two
\* augmented functions, f boxed and g inline, and a gradient build exactly
\* two gradient functions.
C5_MutualRecursion ==
  /\ \A k \in BuiltAug :
        /\ Boxed(k) <=> (k \in selfref \/ Forced(k))
        /\ Boxed(k) => isStructTy(augcache[k].tapeType)
        /\ ~Boxed(k) => /\ augcache[k].tapeType = NoType
                        /\ isStructTy(funcs[augcache[k].fn].retTape)
  /\ (IsMutual("augment") /\ FirstDone("aug") /\ ~results[1].force) =>
        /\ Cardinality(Named("augmented")) = 2
        /\ Named("placeholder") = {}
        /\ \E kf, kg \in BuiltAug :
              /\ kf.fn = "f" /\ kg.fn = "g"
              /\ Boxed(kf) /\ ~Boxed(kg)
              /\ results[1].fn = augcache[kf].fn
  /\ (IsMutual("replace") /\ FirstDone("grad") /\ results[1].req[4]) =>
        /\ Cardinality(Named("gradient")) = 2
        /\ {funcs[i].key.fn : i \in Named("gradient")} = Fns

\* the mutual recursion of f and g has been built by the augmented builder
C5_Witness ==
  /\ IsMutual("augment") /\ FirstDone("aug") /\ ~results[1].force
  /\ Cardinality(Named("augmented")) = 2
  /\ \E kf \in BuiltAug : kf.fn = "f" /\ Boxed(kf)

\* the augmented builder has finished the function of key k
CompletedAug(k) ==
  /\ k \in DOMAIN augcache
  /\ \/ \E i \in DOMAIN funcs :
          funcs[i].key = k /\ funcs[i].name \in {"augmented", "fixaugmented"}
     \/ HasAugmentMD(k) /\ augcache[k].fn = prog.found

\* C11: once the augmented builder has completed the entry of a key, no
\* later builder step, of the augmented or of the gradient builder and for
\* whatever key, changes that entry: its function, tape type, tape slot
\* indices and sub-augmentations stay what they were at completion.
C11_CompletedEntriesFrozen ==
  [][\A k \in DOMAIN augcache :
       CompletedAug(k) => k \in DOMAIN augcache' /\ augcache'[k] = augcache[k]]_vars

\* an entry with tape slots that was completed while a gradient was built
\* has been returned again to a later driver-level request
C11_Witness ==
  /\ Len(results) = 2 /\ results[1].kind = "grad" /\ results[2].kind = "aug"
  /\ \E k \in DOMAIN augcache :
       /\ CompletedAug(k) /\ augcache[k].tapeIndices # EmptyMap
       /\ results[2].fn = augcache[k].fn
       /\ Len(started) = Cardinality({started[n].key : n \in DOMAIN started})

(***************************************************************************)
(* The reverse pass over floating-point binary operators                   *)
(* (DerivativeMaker::visitBinaryOperator), over exact rationals.           *)
(***************************************************************************)
Abs(n) == IF n < 0 THEN -n ELSE n

RECURSIVE GCD(_, _)
GCD(a, b) == IF b = 0 THEN a ELSE GCD(b, a % b)

\* a rational in lowest terms with a positive denominator
Rat(n, d) ==
  LET g == GCD(Abs(n), Abs(d))
      sg == IF d < 0 THEN -1 ELSE 1
  IN <<(sg * n) \div g, (sg * d) \div g>>

Zero == Rat(0, 1)
One == Rat(1, 1)
\* exact arithmetic; common factors are cancelled before multiplying
CreateFAdd(p, q) ==
  LET g == GCD(p[2], q[2])
  IN Rat(p[1] * (q[2] \div g) + q[1] * (p[2] \div g), (p[2] \div g) * q[2])
CreateFNeg(p) == Rat(-p[1], p[2])
CreateFSub(p, q) == CreateFAdd(p, CreateFNeg(q))
CreateFMul(p, q) ==
  LET g1 == GCD(Abs(p[1]), q[2])
      g2 == GCD(Abs(q[1]), p[2])
  IN Rat((p[1] \div g1) * (q[1] \div g2), (p[2] \div g2) * (q[2] \div g1))
CreateFDiv(p, q) == CreateFMul(p, Rat(q[2], q[1]))

Opcodes == {"fadd", "fsub", "fmul", "fdiv"}

\* value ids: the two active arguments, a constant, then the instructions
ArgX == 1
ArgY == 2
ConstC == 3
NumLeaves == 3
InstId(k) == NumLeaves + k

BinaryOperator == [op : Opcodes, a : 1..(NumLeaves + MaxInsts - 1),
                               b : 1..(NumLeaves + MaxInsts - 1)]

\* operands are defined before their use, and every instruction but the
\* last (the returned one) is used by a later one
IsExpression(e) ==
  /\ \A k \in 1..Len(e) : e[k].a < InstId(k) /\ e[k].b < InstId(k)
  /\ \A k \in 1..(Len(e) - 1) :
        \E j \in (k + 1)..Len(e) : e[j].a = InstId(k) \/ e[j].b = InstId(k)

Valuations ==
  {[x |-> Rat(2, 1), y |-> Rat(-3, 1), c |-> Rat(1, 2), ybar |-> Rat(-1, 1)]}

Apply(op, p, q) ==
  CASE op = "fadd" -> CreateFAdd(p, q)
    [] op = "fsub" -> CreateFSub(p, q)
    [] op = "fmul" -> CreateFMul(p, q)
    [] op = "fdiv" -> CreateFDiv(p, q)

\* the primal values of the leaves and of every instruction
RECURSIVE PrimalValues(_, _)
PrimalValues(insts, v) ==
  IF insts = <<>> THEN <<v.x, v.y, v.c>>
  ELSE LET n == Len(insts)
           before == PrimalValues(SubSeq(insts, 1, n - 1), v)
           bo == insts[n]
       IN Append(before,
                 IF bo.op = "fdiv" /\ before[bo.b][1] = 0 THEN Zero
                 ELSE Apply(bo.op, before[bo.a], before[bo.b]))

\* no division of the expression divides by zero
Defined(insts, v) ==
  LET vals == PrimalValues(insts, v)
  IN \A k \in DOMAIN insts : insts[k].op = "fdiv" => vals[insts[k].b][1] # 0

\* the activity analysis: arguments are active, the literal is constant, an
\* instruction is constant when both operands are
RECURSIVE isConstantValue(_, _)
isConstantValue(insts, id) ==
  IF id <= NumLeaves THEN id = ConstC
  ELSE /\ isConstantValue(insts, insts[id - NumLeaves].a)
       /\ isConstantValue(insts, insts[id - NumLeaves].b)

addToDiffe(d, id, dif) == [d EXCEPT ![id] = CreateFAdd(@, dif)]
setDiffe(d, id, val) == [d EXCEPT ![id] = val]

\* lines 892-921: the cotangent of operand 0
Dif0(op, idiff, va, vb, vr) ==
  CASE op = "fmul" -> CreateFMul(idiff, vb)
    [] op = "fadd" -> idiff
    [] op = "fsub" -> idiff
    [] op = "fdiv" -> CreateFDiv(idiff, vb)

Dif1_NoNeg(op, idiff, va, vb, vr) ==
  CASE op = "fmul" -> CreateFMul(idiff, va)
    [] op = "fadd" -> idiff
    [] op = "fsub" -> CreateFNeg(idiff)
    [] op = "fdiv" -> CreateFDiv(CreateFMul(idiff, vr), vb)

\* lines 892-921: the cotangent of operand 1
Dif1(op, idiff, va, vb, vr) ==
  CASE op = "fmul" -> CreateFMul(idiff, va)
    [] op = "fadd" -> idiff
    [] op = "fsub" -> CreateFNeg(idiff)
    [] op = "fdiv" -> CreateFNeg(CreateFDiv(CreateFMul(idiff, vr), vb))

\* DerivativeMaker::visitBinaryOperator in reverse mode, on instruction k
visitBinaryOperator(D, k) ==
  LET BO == D.insts[k]
      r == InstId(k)
      idiff == D.d[r]
      has0 == ~isConstantValue(D.insts, BO.a)
      has1 == ~isConstantValue(D.insts, BO.b)
      dif0 == Dif0(BO.op, idiff, D.vals[BO.a], D.vals[BO.b], D.vals[r])
      dif1 == Dif1(BO.op, idiff, D.vals[BO.a], D.vals[BO.b], D.vals[r])
      d1 == IF has0 \/ has1 THEN setDiffe(D.d, r, Zero) ELSE D.d
      d2 == IF has0 THEN addToDiffe(d1, BO.a, dif0) ELSE d1
      d3 == IF has1 THEN addToDiffe(d2, BO.b, dif1) ELSE d2
  IN IF isConstantValue(D.insts, r) THEN D ELSE [D EXCEPT !.d = d3]

BuildersIdle ==
  /\ prog = Idle /\ funcs = <<>> /\ augcache = EmptyMap /\ cachedfinished = EmptyMap
  /\ gradcache = EmptyMap /\ stack = <<>> /\ results = <<>> /\ started = <<>>
  /\ selfref = {} /\ err = "none"

\* the reverse pass is about to start (lines 3507-3513): the returned value
\* holds the incoming cotangent when it is not constant, every other
\* cotangent is zero, no tape slot exists
DiffStart(insts, v) ==
  LET retval == InstId(Len(insts))
  IN [insts |-> insts, v |-> v, vals |-> PrimalValues(insts, v),
      d |-> [id \in 1..retval |->
               IF id = retval /\ ~isConstantValue(insts, retval) THEN v.ybar ELSE Zero],
      pc |-> Len(insts), slots |-> {}]

InitDiff ==
  /\ BuildersIdle
  /\ \E n \in 1..MaxInsts, v \in Valuations :
       \E e \in [1..n -> BinaryOperator] :
         /\ IsExpression(e)
         /\ Defined(e, v)
         /\ diff = DiffStart(e, v)
  /\ lmap = Idle /\ tape = Idle /\ sig = Idle /\ cfg = Idle /\ heap = Idle

\* the reverse pass visits the next instruction, back to front
VisitBinaryOperator ==
  /\ diff.pc >= 1
  /\ diff' = [visitBinaryOperator(diff, diff.pc) EXCEPT !.pc = @ - 1]
  /\ UNCHANGED <<bvars, lmap, tape, sig, cfg, heap>>

NextDiff == VisitBinaryOperator
SpecDiff == InitDiff /\ [][NextDiff]_vars

\* forward-mode tangent of every value with respect to the leaf wrt
RECURSIVE Tangents(_, _, _)
Tangents(insts, vals, wrt) ==
  IF insts = <<>> THEN [id \in 1..NumLeaves |-> IF id = wrt THEN One ELSE Zero]
  ELSE LET n == Len(insts)
           t == Tangents(SubSeq(insts, 1, n - 1), vals, wrt)
           bo == insts[n]
           a == vals[bo.a]
           b == vals[bo.b]
           ta == t[bo.a]
           tb == t[bo.b]
       IN Append(t,
            CASE bo.op = "fadd" -> CreateFAdd(ta, tb)
              [] bo.op = "fsub" -> CreateFSub(ta, tb)
              [] bo.op = "fmul" -> CreateFAdd(CreateFMul(ta, b), CreateFMul(a, tb))
              [] bo.op = "fdiv" -> CreateFDiv(CreateFSub(CreateFMul(ta, b), CreateFMul(a, tb)),
                                             CreateFMul(b, b)))

Partial(wrt) ==
  Tangents(diff.insts, diff.vals, wrt)[InstId(Len(diff.insts))]

\* the partial derivatives of r = a op b claimed for the reverse rules
PartialA(op, a, b, r) ==
  CASE op = "fadd" -> One
    [] op = "fsub" -> One
    [] op = "fmul" -> b
    [] op = "fdiv" -> CreateFDiv(One, b)
PartialB(op, a, b, r) ==
  CASE op = "fadd" -> One
    [] op = "fsub" -> CreateFNeg(One)
    [] op = "fmul" -> a
    [] op = "fdiv" -> CreateFNeg(CreateFDiv(r, b))

\* the cotangents after visiting instruction k, as the rules state them
RuleStep(D, k) ==
  LET bo == D.insts[k]
      r == InstId(k)
      dr == D.d[r]
      ca(id) == IF id = bo.a /\ id # ConstC /\ ~isConstantValue(D.insts, id)
                THEN CreateFMul(dr, PartialA(bo.op, D.vals[bo.a], D.vals[bo.b], D.vals[r]))
                ELSE Zero
      cb(id) == IF id = bo.b /\ id # ConstC /\ ~isConstantValue(D.insts, id)
                THEN CreateFMul(dr, PartialB(bo.op, D.vals[bo.a], D.vals[bo.b], D.vals[r]))
                ELSE Zero
  IN [id \in DOMAIN D.d |->
        IF id = r THEN Zero ELSE CreateFAdd(D.d[id], CreateFAdd(ca(id), cb(id)))]

DiffDone == diff.pc = 0

\* C6: each reverse step on an active r = a op b zeroes d(r) and adds
\* d(r) times the partial derivative to each non-constant operand, repeated
\* operands summing; when the pass is done every argument holds its
\* symbolic partial derivative times the incoming cotangent, the constant
\* and the instructions hold zero, x*x yields 2*x*ybar, and no tape slot
\* has been allocated.
C6_ReverseRules ==
  /\ [](DiffDone =>
          /\ diff.d[ArgX] = CreateFMul(diff.v.ybar, Partial(ArgX))
          /\ diff.d[ArgY] = CreateFMul(diff.v.ybar, Partial(ArgY))
          /\ \A id \in DOMAIN diff.d : id > ArgY => diff.d[id] = Zero
          /\ diff.slots = {}
          /\ diff.insts = <<[op |-> "fmul", a |-> ArgX, b |-> ArgX]>> =>
                diff.d[ArgX] = CreateFMul(Rat(2, 1), CreateFMul(diff.v.x, diff.v.ybar)))
  /\ [][(diff.pc >= 1 /\ ~isConstantValue(diff.insts, InstId(diff.pc))) =>
          diff'.d = RuleStep(diff, diff.pc)]_vars

\* the reverse pass over x*x has finished with a non-zero gradient
C6_Witness ==
  /\ DiffDone
  /\ diff.insts = <<[op |-> "fmul", a |-> ArgX, b |-> ArgX]>>
  /\ diff.d[ArgX] = CreateFMul(Rat(2, 1), CreateFMul(diff.v.x, diff.v.ybar))
  /\ diff.d[ArgX] # Zero

(***************************************************************************)
(* The cacheability analysis of loads (compute_uncacheable_load_map), for  *)
(* a function with one load L over a small control-flow graph.             *)
(***************************************************************************)
Blocks == {1, 2, 3}
EntryBlock == 1

\* successor maps: the entry block has no predecessor
CFGs == [Blocks -> SUBSET (Blocks \ {EntryBlock})]

RECURSIVE ReachFrom(_, _, _)
\* blocks reachable from the set seen along edges, never entering avoid
ReachFrom(succ, seen, avoid) ==
  LET next == (seen \cup UNION {succ[b] : b \in seen}) \ avoid
  IN IF next = seen THEN seen ELSE ReachFrom(succ, next, avoid)

AllReachable(succ) == ReachFrom(succ, {EntryBlock}, {}) = Blocks

\* DominatorTree::dominates on blocks: every path from the entry to b meets a
BlockDominates(succ, a, b) ==
  a = b \/ b \notin ReachFrom(succ, {EntryBlock} \ {a}, {a})

\* DominatorTree::dominates(inst2, inst) on instructions of reachable blocks
dominates(F, i2, i) ==
  IF F.insts[i2].block = F.insts[i].block THEN i2 < i
  ELSE BlockDominates(F.succ, F.insts[i2].block, F.insts[i].block)

\* the underlying object of the load's pointer operand
\* ("other": a load, a global, an alloca or any other value)
ObjKinds == {"arg", "uncacheable_arg", "malloc", "call", "other"}
InstKinds == {"load", "store", "free"}
Inst == [kind : InstKinds, block : Blocks, mods : BOOLEAN]

\* a function body in inst_iterator order: blocks in layout order, one load,
\* and for every other instruction the alias oracle's verdict on whether it
\* may write the location the load reads
IsBody(insts) ==
  /\ \A i \in 1..(Len(insts) - 1) : insts[i].block <= insts[i + 1].block
  /\ Cardinality({i \in DOMAIN insts : insts[i].kind = "load"}) = 1
  /\ \A i \in DOMAIN insts : insts[i].kind = "load" => ~insts[i].mods

TheLoad(F) == CHOOSE i \in DOMAIN F.insts : F.insts[i].kind = "load"

\* isModSet(AA.getModRefInfo(inst2, MemoryLocation::get(op)))
isModSet(F, i2) == F.insts[i2].mods

isCertainMallocOrFree(F, i2) == F.insts[i2].kind = "free"

\* lines 76-131: the verdict from the underlying object alone
ObjectUncacheable(obj) ==
  CASE obj = "arg" -> FALSE
    [] obj = "uncacheable_arg" -> TRUE
    [] obj = "malloc" -> FALSE
    [] obj = "call" -> TRUE
    [] obj = "other" -> TRUE

SkipsInst_SelfOnly(F, L, i2) == i2 = L

\* lines 136-138: instructions the scan does not look at
SkipsInst(F, L, i2) == i2 = L \/ dominates(F, i2, L)

\* lines 134-164: one iteration of the scan over the function for load L
ScanStep(S) ==
  LET F == S.F
      L == TheLoad(F)
      i2 == S.i2
  IN IF i2 > Len(F.insts) THEN [S EXCEPT !.phase = "record"]
     ELSE IF SkipsInst(F, L, i2) THEN [S EXCEPT !.i2 = @ + 1]
     ELSE IF isCertainMallocOrFree(F, i2) THEN [S EXCEPT !.i2 = @ + 1]
     ELSE IF isModSet(F, i2) THEN [S EXCEPT !.can_modref = TRUE, !.phase = "record"]
     ELSE [S EXCEPT !.i2 = @ + 1]

InitLoad ==
  /\ BuildersIdle
  /\ diff = Idle /\ tape = Idle /\ sig = Idle /\ cfg = Idle /\ heap = Idle
  /\ \E succ \in CFGs, obj \in ObjKinds, n \in 1..(MaxOthers + 1) :
       \E insts \in [1..n -> Inst] :
         /\ AllReachable(succ)
         /\ IsBody(insts)
         /\ lmap = [F |-> [succ |-> succ, insts |-> insts, obj |-> obj],
                    phase |-> "classify", i2 |-> 1, can_modref |-> FALSE,
                    can_modref_map |-> <<>>]

\* the analysis reaches the load and classifies its underlying object
ClassifyObject ==
  /\ lmap.phase = "classify"
  /\ lmap' = [lmap EXCEPT !.can_modref = ObjectUncacheable(lmap.F.obj),
                          !.phase = "scan"]
  /\ UNCHANGED <<bvars, diff, tape, sig, cfg, heap>>

\* the inner loop looks at the next instruction of the function
ScanInstruction ==
  /\ lmap.phase = "scan"
  /\ lmap' = ScanStep(lmap)
  /\ UNCHANGED <<bvars, diff, tape, sig, cfg, heap>>

\* line 165: can_modref_map[inst] = can_modref
RecordLoad ==
  /\ lmap.phase = "record"
  /\ lmap' = [lmap EXCEPT !.can_modref_map = <<lmap.can_modref>>, !.phase = "done"]
  /\ UNCHANGED <<bvars, diff, tape, sig, cfg, heap>>

NextLoad == ClassifyObject \/ ScanInstruction \/ RecordLoad
SpecLoad == InitLoad /\ [][NextLoad]_vars

\* instruction j can execute after instruction i on some path: later in the
\* same block, or in a block reached from i's block by at least one edge
ExecutesAfter(F, i, j) ==
  \/ F.insts[i].block = F.insts[j].block /\ i < j
  \/ F.insts[j].block \in ReachFrom(F.succ, F.succ[F.insts[i].block], {})

MarkedCacheable == lmap.phase = "done" /\ lmap.can_modref_map = <<FALSE>>

\* C7, in the form most favourable to the code (calls to free, which the
\* pass exempts on purpose, are not counted as writers): if the load is
\* marked cacheable, no instruction that can execute after it, on a later
\* loop iteration included, is reported by the alias oracle as writing the
\* location it reads.
C7_CacheableNeverWrittenLater ==
  MarkedCacheable =>
    \A j \in DOMAIN lmap.F.insts :
      (j # TheLoad(lmap.F) /\ ~isCertainMallocOrFree(lmap.F, j)
        /\ ExecutesAfter(lmap.F, TheLoad(lmap.F), j)) => ~isModSet(lmap.F, j)

\* what the scan does establish: a cacheable load has no oracle-reported
\* writer among the instructions that do not dominate it
C7_NoWriterOffTheDominators ==
  MarkedCacheable =>
    \A j \in DOMAIN lmap.F.insts :
      (j # TheLoad(lmap.F) /\ ~isCertainMallocOrFree(lmap.F, j)
        /\ ~dominates(lmap.F, j, TheLoad(lmap.F))) => ~isModSet(lmap.F, j)

\* the classification of the underlying object as the claim words it
StatedUncacheableObject(obj) ==
  obj = "uncacheable_arg" \/ obj \notin {"arg", "uncacheable_arg", "malloc"}

\* some other instruction that does not dominate the load and is not an
\* allocation or free call is reported to write the load's location
NonDominatingWriter(F) ==
  \E j \in DOMAIN F.insts :
    /\ j # TheLoad(F) /\ ~dominates(F, j, TheLoad(F))
    /\ ~isCertainMallocOrFree(F, j) /\ isModSet(F, j)

\* C17: the load has an entry in can_modref_map, and the entry is true
\* exactly when its underlying object is classified uncacheable or a
\* non-dominating instruction other than an allocation/free call is
\* reported to write the location it reads
C17_EntryExactlyWhenUnsafe ==
  /\ lmap.phase # "done" => lmap.can_modref_map = <<>>
  /\ lmap.phase = "done" =>
       /\ Len(lmap.can_modref_map) = 1
       /\ lmap.can_modref_map[1]
            <=> (StatedUncacheableObject(lmap.F.obj) \/ NonDominatingWriter(lmap.F))

C17_Witness ==
  /\ lmap.phase = "done" /\ lmap.can_modref_map = <<TRUE>>
  /\ lmap.F.obj = "malloc" /\ NonDominatingWriter(lmap.F)
  /\ lmap.F.insts[TheLoad(lmap.F)].block = 2 /\ lmap.i2 > TheLoad(lmap.F)

(***************************************************************************)
(* The tape keys of a call instruction op by the users of its result: the  *)
(* slots handleAugmentedCallInst assigns and the slots                     *)
(* handleGradientCallInst asks for.                                        *)
(***************************************************************************)
\* the users of the result of op: a return, a call of free in the block of
\* op, a call of free in a block that is walked after that of op, and an
\* instruction that both builders keep
UserKinds == {"ret", "free", "free later", "other"}

\* constant: isConstantInstruction(op); augmented: shouldAugmentCall(op)
CallClasses == {"constant", "plain", "augmented"}

\* lines 1561-1592: a return becomes an insertvalue, recorded in returnuses,
\* when the return value is used, and is erased otherwise
AugmentedReturns(uses, returnUsed) ==
  IF returnUsed THEN uses ELSE uses \ {"ret"}

\* lines 2130-2135 and 2427-2452: a visited call of free is erased
EraseFree(uses) == uses \ {"free"}

\* lines 2435-2437: the gradient builder calls getName() on
\* dc->getCalledFunction() of the call that made the freed value, which is
\* null when that call goes through a function pointer
FreedByNullCallee(op) == ~op.called

\* lines 3479-3521 with returnValue = false: the return is erased
GradientReturns(uses) == uses \ {"ret"}

\* lines 2137-2143, 2182-2205, 2273-2317: the keys that get a slot; uses are
\* the users of op left in the augmented function when op is visited
ForwardCallSlots(op, uses) ==
  LET subretused == uses # {}                              \* op->getNumUses() != 0
      hasNonReturnUse == uses \ {"ret"} # {}               \* 2190-2196
  IN CASE op.class = "constant" ->
            {k \in {"Self"} : subretused /\ op.accessesMemory}
       [] op.class = "plain" ->
            {k \in {"Self"} : hasNonReturnUse /\ op.accessesMemory}
       [] op.class = "augmented" ->
            {"Tape"} \cup {k \in {"Self"} : subretused /\ hasNonReturnUse}
                     \cup {k \in {"Shadow"} : op.inverted /\ hasNonReturnUse}

\* lines 2355-2376
subretusedOriginal_CloneOnly(uses, original) == uses # {}
subretusedOriginal(uses, original) == uses # {} \/ original \ {"ret"} # {}

\* lines 2489-2496, 2922-2965, 2982-2987 with topLevel = false: the keys
\* that are looked up; uses are the users of op left in the gradient
\* function when op is visited, original those of the original call
ReverseCallRequests(op, uses, original) ==
  LET subretused == subretusedOriginal(uses, original)
      hasNonReturnUse == original \ {"ret"} # {}           \* 2942-2948
  IN CASE op.class = "constant" ->
            {k \in {"Self"} : subretused /\ op.accessesMemory}
       [] op.class = "plain" ->
            {k \in {"Self"} : subretused /\ op.accessesMemory}
       [] op.class = "augmented" ->
            {"Tape"} \cup {k \in {"Self"} : subretused}
                     \cup {k \in {"Shadow"} : op.inverted /\ hasNonReturnUse}

(***************************************************************************)
(* The tape slot bookkeeping of one function: the augmented builder walks  *)
(* the body in mode Forward and assigns slots, the gradient builder walks  *)
(* it in mode Reverse and reads them through the recorded tapeIndices;     *)
(* then the two functions run along one control-flow path.                 *)
(***************************************************************************)
CacheTypes == {"Self", "Shadow", "Tape"}
TapeBlocks == {1, 2}

\* the users of a call result that are followed in a body
CallUsers == {{}, {"ret"}, {"free"}, {"other"}}

\* an instruction and what the analyses say about it.  load, malloc:
\* shadow - its inverted pointer must be cached (can_modref of a pointer
\* load, a non-constant allocation); self - its primal value must be cached
\* (is_value_needed_in_reverse).  call: a direct call that accesses memory,
\* with its class and the users of its result in the original function
TapeInst ==
  [kind : {"load", "malloc"}, block : TapeBlocks, shadow : BOOLEAN, self : BOOLEAN]
  \cup [kind : {"binop"}, block : TapeBlocks]
  \cup [kind : {"call"}, block : TapeBlocks, class : CallClasses,
        called : {TRUE}, accessesMemory : {TRUE}, inverted : BOOLEAN,
        original : CallUsers]

IsTapeBody(insts) ==
  /\ \A i \in 1..(Len(insts) - 1) : insts[i].block <= insts[i + 1].block
  /\ \A i \in DOMAIN insts :
       insts[i].kind = "call" => (insts[i].inverted => insts[i].class = "augmented")

Opt(cond, kind) == IF cond THEN <<kind>> ELSE <<>>

\* the slots one instruction asks for in mode Forward, in order:
\* visitLoadInst 640, 680; handleAugmentedCallInst 2122, 2125, 2140,
\* 2198-2201, 2280-2316.  The returns were handled (1561-1592) and a call of
\* free behind the call was erased (2130-2135) before the call is visited
ForwardKinds(inst, returnUsed) ==
  CASE inst.kind = "load" -> Opt(inst.shadow, "Shadow") \o Opt(inst.self, "Self")
    [] inst.kind = "call" ->
         LET uses == EraseFree(AugmentedReturns(inst.original, returnUsed))
             slots == ForwardCallSlots(inst, uses)
         IN Opt("Tape" \in slots, "Tape") \o Opt("Shadow" \in slots, "Shadow")
              \o Opt("Self" \in slots, "Self")
    [] inst.kind = "malloc" -> Opt(inst.self, "Self") \o Opt(inst.shadow, "Shadow")
    [] inst.kind = "binop" -> <<>>

\* the slots one instruction asks for in mode Reverse, in order:
\* visitLoadInst 651, 680; handleGradientCallInst 2384, 2400, 2492,
\* 2924-2957, 2984.  The tests of a call are made anew, over the users of
\* the original call (2355-2376, 2942-2948)
ReverseKinds(inst) ==
  CASE inst.kind = "load" -> Opt(inst.shadow, "Shadow") \o Opt(inst.self, "Self")
    [] inst.kind = "call" ->
         LET uses == EraseFree(GradientReturns(inst.original))
             requested == ReverseCallRequests(inst, uses, inst.original)
         IN Opt("Tape" \in requested, "Tape") \o Opt("Self" \in requested, "Self")
              \o Opt("Shadow" \in requested, "Shadow")
    [] inst.kind = "malloc" -> Opt(inst.shadow, "Shadow") \o Opt(inst.self, "Self")
    [] inst.kind = "binop" -> <<>>

\* the instructions of block b, last to first
RECURSIVE BackToFront(_, _, _)
BackToFront(insts, b, i) ==
  IF i = 0 THEN <<>>
  ELSE (IF insts[i].block = b THEN <<i>> ELSE <<>>) \o BackToFront(insts, b, i - 1)

RECURSIVE FrontToBack(_, _, _)
FrontToBack(insts, b, i) ==
  IF i > Len(insts) THEN <<>>
  ELSE (IF insts[i].block = b THEN <<i>> ELSE <<>>) \o FrontToBack(insts, b, i + 1)

ForwardWalk_FrontToBack(insts) == FrontToBack(insts, 1, 1) \o FrontToBack(insts, 2, 1)

\* lines 1607-1634: blocks in layout order, each block from rbegin to rend
ForwardWalk(insts) == BackToFront(insts, 1, Len(insts)) \o BackToFront(insts, 2, Len(insts))

ReverseWalk_FrontToBack(insts) == FrontToBack(insts, 1, 1) \o FrontToBack(insts, 2, 1)

\* lines 3525-3576: blocks in layout order, each block from rbegin to rend
ReverseWalk(insts) == BackToFront(insts, 1, Len(insts)) \o BackToFront(insts, 2, Len(insts))

\* mode Forward: every request gets its index from tapeIndices and the
\* cached value joins the tape at that index
RECURSIVE WriteSlots(_, _, _)
WriteSlots(T, i, kinds) ==
  IF kinds = <<>> THEN T
  ELSE LET key == <<i, Head(kinds)>>
           map1 == getIndex(T.tapeIndices, key)
       IN WriteSlots([T EXCEPT !.tapeIndices = map1,
                               !.mallocs = addMalloc(@, key, map1[key]),
                               !.writes = Append(@, key)],
                     i, Tail(kinds))

\* a tape that is popped: the next read takes the next field
RECURSIVE ReadSlots_ByPosition(_, _, _)
ReadSlots_ByPosition(T, i, kinds) ==
  IF kinds = <<>> THEN T
  ELSE LET key == <<i, Head(kinds)>>
           idx == Len(T.reads)
       IN IF idx >= Len(T.mallocs)
          THEN [T EXCEPT !.phase = "tape slot lookup missed"]
          ELSE ReadSlots_ByPosition(
                 [T EXCEPT !.reads = Append(@, [key |-> key, idx |-> idx,
                                                value |-> T.mallocs[idx + 1]])],
                 i, Tail(kinds))

\* mode Reverse: every request looks its index up in the recorded
\* tapeIndices and takes the value of that tape field; a key without an
\* index stops the build
RECURSIVE ReadSlots(_, _, _)
ReadSlots(T, i, kinds) ==
  IF kinds = <<>> THEN T
  ELSE LET key == <<i, Head(kinds)>>
       IN IF key \notin DOMAIN T.tapeIndices
          THEN [T EXCEPT !.phase = "tape slot lookup missed"]
          ELSE ReadSlots([T EXCEPT !.reads = Append(@, [key |-> key,
                                                       idx |-> T.tapeIndices[key],
                                                       value |-> T.mallocs[T.tapeIndices[key] + 1]])],
                         i, Tail(kinds))

\* the control-flow paths that are run: block 1 is the entry block, block 2
\* follows it when the path takes it
Paths == {<<1>>, <<1, 2>>}

\* the instructions a run along path executes, in the order it executes them
RECURSIVE ProgramOrder(_, _)
ProgramOrder(insts, path) ==
  IF path = <<>> THEN <<>>
  ELSE FrontToBack(insts, Head(path), 1) \o ProgramOrder(insts, Tail(path))

\* the keys among keys that belong to instruction i, in the order of keys
RECURSIVE AtInst(_, _)
AtInst(keys, i) ==
  IF keys = <<>> THEN <<>>
  ELSE (IF Head(keys)[1] = i THEN <<Head(keys)>> ELSE <<>>) \o AtInst(Tail(keys), i)

\* lines 1767-1780: a store to the tape is put right behind the cached
\* value, and the cached values of one instruction stand in the order of
\* their requests: the stores emitted for keys, in the order in which a run
\* that executes the instructions of order makes them
RECURSIVE ExecutedAccesses(_, _)
ExecutedAccesses(keys, order) ==
  IF order = <<>> THEN <<>>
  ELSE AtInst(keys, Head(order)) \o ExecutedAccesses(keys, Tail(order))

\* where the gradient builder puts the tape reads of one instruction.  A
\* load: the Shadow read at the placeholder behind the load (629, 651), the
\* Self read at LI.getNextNode() (677, 680), which by then is the Shadow
\* read, so Self comes first.  An allocation: the Self read at op (2399), the
\* Shadow read at the placeholder behind op (2384).  A call: Tape, Self,
\* Shadow, one behind the other through BuilderZ (2507, 2924-2957)
ReadPlacement(inst) ==
  CASE inst.kind \in {"load", "malloc"} -> <<"Self", "Shadow">>
    [] inst.kind = "call" -> <<"Tape", "Self", "Shadow">>
    [] inst.kind = "binop" -> <<>>

\* the keys among keys that belong to instruction i, in the order kinds
RECURSIVE PlacedAt(_, _, _)
PlacedAt(keys, i, kinds) ==
  IF kinds = <<>> THEN <<>>
  ELSE (IF \E j \in DOMAIN keys : keys[j] = <<i, Head(kinds)>>
        THEN <<<<i, Head(kinds)>>>> ELSE <<>>)
       \o PlacedAt(keys, i, Tail(kinds))

\* the tape reads emitted for keys, in the order in which a run of the
\* gradient function that passes the instructions of order makes them
RECURSIVE ExecutedReads(_, _, _)
ExecutedReads(keys, insts, order) ==
  IF order = <<>> THEN <<>>
  ELSE PlacedAt(keys, Head(order), ReadPlacement(insts[Head(order)]))
       \o ExecutedReads(keys, insts, Tail(order))

\* the value a read of field idx gets after the stores of stored
Fetch(stored, mapping, idx) ==
  IF \E p \in DOMAIN stored : mapping[stored[p]] = idx
  THEN stored[CHOOSE p \in DOMAIN stored : mapping[stored[p]] = idx]
  ELSE <<0, "undef">>

InitTape ==
  /\ BuildersIdle
  /\ diff = Idle /\ lmap = Idle /\ sig = Idle /\ cfg = Idle /\ heap = Idle
  /\ \E n \in 1..MaxCached, returnUsed \in BOOLEAN :
       \E insts \in [1..n -> TapeInst] :
         /\ IsTapeBody(insts)
         /\ tape = [insts |-> insts, returnUsed |-> returnUsed,
                    phase |-> "forward", walk |-> ForwardWalk(insts),
                    tapeIndices |-> EmptyMap, mallocs |-> <<>>, writes |-> <<>>,
                    reads |-> <<>>, path |-> <<>>, stored |-> <<>>,
                    loaded |-> <<>>]

ReadKeys == [i \in DOMAIN tape.reads |-> tape.reads[i].key]
LoadedKeys == [i \in DOMAIN tape.loaded |-> tape.loaded[i].key]

\* the augmented builder visits the next instruction of its walk
ForwardVisit ==
  /\ tape.phase = "forward" /\ tape.walk # <<>>
  /\ LET i == Head(tape.walk)
     IN tape' = [WriteSlots(tape, i, ForwardKinds(tape.insts[i], tape.returnUsed))
                   EXCEPT !.walk = Tail(@)]
  /\ UNCHANGED <<bvars, diff, lmap, sig, cfg, heap>>

\* the augmented function is finished; the gradient builder starts from
\* the recorded tapeIndices (lines 3382-3383)
StartGradient ==
  /\ tape.phase = "forward" /\ tape.walk = <<>>
  /\ tape' = [tape EXCEPT !.phase = "reverse", !.walk = ReverseWalk(tape.insts)]
  /\ UNCHANGED <<bvars, diff, lmap, sig, cfg, heap>>

\* the gradient builder visits the next instruction of its walk
ReverseVisit ==
  /\ tape.phase = "reverse" /\ tape.walk # <<>>
  /\ LET i == Head(tape.walk)
         T == ReadSlots(tape, i, ReverseKinds(tape.insts[i]))
     IN tape' = IF T.phase = "reverse" THEN [T EXCEPT !.walk = Tail(@)] ELSE T
  /\ UNCHANGED <<bvars, diff, lmap, sig, cfg, heap>>

\* the gradient builder has walked the whole body
FinishGradient ==
  /\ tape.phase = "reverse" /\ tape.walk = <<>>
  /\ tape' = [tape EXCEPT !.phase = "done"]
  /\ UNCHANGED <<bvars, diff, lmap, sig, cfg, heap>>

\* the augmented function runs along a path and stores the cached values
RunAugmented ==
  /\ tape.phase = "done"
  /\ \E path \in Paths :
       tape' = [tape EXCEPT !.phase = "augmented ran", !.path = path,
                            !.stored = ExecutedAccesses(tape.writes,
                                                ProgramOrder(tape.insts, path))]
  /\ UNCHANGED <<bvars, diff, lmap, sig, cfg, heap>>

\* the gradient function runs along the same path with that tape
RunGradient ==
  /\ tape.phase = "augmented ran"
  /\ LET keys == ExecutedReads(ReadKeys, tape.insts,
                               ProgramOrder(tape.insts, tape.path))
     IN tape' = [tape EXCEPT !.phase = "ran",
                   !.loaded = [j \in DOMAIN keys |->
                                 [key |-> keys[j],
                                  value |-> Fetch(tape.stored, tape.tapeIndices,
                                                  tape.reads[CHOOSE r \in DOMAIN tape.reads :
                                                               tape.reads[r].key = keys[j]].idx)]]]
  /\ UNCHANGED <<bvars, diff, lmap, sig, cfg, heap>>

NextTape == ForwardVisit \/ StartGradient \/ ReverseVisit \/ FinishGradient
            \/ RunAugmented \/ RunGradient
SpecTape == InitTape /\ [][NextTape]_vars

NoRepeat(seq) == \A i, j \in DOMAIN seq : seq[i] = seq[j] => i = j
Pos(seq, x) == CHOOSE i \in DOMAIN seq : seq[i] = x
Keys(seq) == {seq[i] : i \in DOMAIN seq}

OneSlotPerKey ==
  /\ NoRepeat(tape.writes)
  /\ \A k1, k2 \in DOMAIN tape.tapeIndices :
        tape.tapeIndices[k1] = tape.tapeIndices[k2] => k1 = k2
OneReadPerKey == NoRepeat(ReadKeys)

\* C8, as stated: each key gets at most one slot in the forward pass and at
\* most one read in the reverse pass, and along a control-flow path the
\* reads of the gradient function occur in the reverse of the order in
\* which the augmented function wrote the keys.
C8_ReadsReverseWrites ==
  /\ OneSlotPerKey
  /\ OneReadPerKey
  /\ tape.phase = "ran" =>
       \A k1, k2 \in Keys(LoadedKeys) :
          Pos(tape.stored, k1) < Pos(tape.stored, k2) =>
            Pos(LoadedKeys, k1) > Pos(LoadedKeys, k2)

\* C8, amended: each key gets at most one slot in the forward pass and at
\* most one read in the reverse pass; a read that is made finds by key the
\* slot the forward pass assigned and, in a run, the value stored for that
\* key; and along a control-flow path the keys of different instructions
\* are read in the same order in which they were written.
C8_ReadsFollowWrites ==
  /\ OneSlotPerKey
  /\ OneReadPerKey
  /\ \A i \in DOMAIN tape.reads :
        /\ tape.reads[i].key \in Keys(tape.writes)
        /\ tape.reads[i].value = tape.reads[i].key
        /\ tape.reads[i].idx = Pos(tape.writes, tape.reads[i].key) - 1
  /\ tape.phase = "ran" =>
        /\ NoRepeat(tape.stored) /\ NoRepeat(LoadedKeys)
        /\ \A j \in DOMAIN tape.loaded : tape.loaded[j].value = tape.loaded[j].key
        /\ \A k1, k2 \in Keys(LoadedKeys) :
              (k1[1] # k2[1] /\ Pos(tape.stored, k1) < Pos(tape.stored, k2)) =>
                Pos(LoadedKeys, k1) < Pos(LoadedKeys, k2)

\* both functions ran along the path through both blocks; a call in one
\* block and a cached instruction in the other were written and read
C8_Witness ==
  /\ tape.phase = "ran" /\ tape.path = <<1, 2>>
  /\ \E k1, k2 \in Keys(LoadedKeys) :
        /\ tape.insts[k1[1]].block < tape.insts[k2[1]].block
        /\ tape.insts[k1[1]].kind = "call"
        /\ Pos(tape.stored, k1) < Pos(tape.stored, k2)
        /\ Pos(LoadedKeys, k1) < Pos(LoadedKeys, k2)

\* the instructions of a sequence of keys, one entry per run of equal ones
RECURSIVE InstOrder(_)
InstOrder(keys) ==
  IF Len(keys) <= 1 THEN [i \in DOMAIN keys |-> keys[i][1]]
  ELSE IF keys[1][1] = keys[2][1] THEN InstOrder(Tail(keys))
       ELSE <<keys[1][1]>> \o InstOrder(Tail(keys))

SameBlock(i, j) == tape.insts[i].block = tape.insts[j].block

\* the keys among keys that belong to an instruction of S, in their order
RECURSIVE KeysOf(_, _)
KeysOf(keys, S) ==
  IF keys = <<>> THEN <<>>
  ELSE (IF Head(keys)[1] \in S THEN <<Head(keys)>> ELSE <<>>) \o KeysOf(Tail(keys), S)

\* C15: the augmented builder visits each block front-to-back and the
\* gradient builder back-to-front
C15_ForwardFrontToBack ==
  /\ \A p, q \in DOMAIN tape.writes :
       (p < q /\ SameBlock(tape.writes[p][1], tape.writes[q][1]))
          => tape.writes[p][1] <= tape.writes[q][1]
  /\ \A p, q \in DOMAIN ReadKeys :
       (p < q /\ SameBlock(ReadKeys[p][1], ReadKeys[q][1]))
          => ReadKeys[p][1] >= ReadKeys[q][1]

\* C15 as amended: both builders take the blocks in layout order and each
\* block from its last instruction to its first, so the gradient builder
\* asks for the slots of the instructions it reads in the order in which
\* the augmented builder assigned them (a slot may stay unread)
C15_BothBackToFront ==
  /\ \A p, q \in DOMAIN tape.writes :
       p < q => /\ tape.insts[tape.writes[p][1]].block <= tape.insts[tape.writes[q][1]].block
                /\ SameBlock(tape.writes[p][1], tape.writes[q][1])
                     => tape.writes[p][1] >= tape.writes[q][1]
  /\ \A p, q \in DOMAIN ReadKeys :
       p < q => /\ tape.insts[ReadKeys[p][1]].block <= tape.insts[ReadKeys[q][1]].block
                /\ SameBlock(ReadKeys[p][1], ReadKeys[q][1])
                     => ReadKeys[p][1] >= ReadKeys[q][1]
  /\ tape.phase = "done" =>
       InstOrder(ReadKeys)
         = InstOrder(KeysOf(tape.writes, {k[1] : k \in Keys(ReadKeys)}))

\* two cached instructions of one block were assigned their slots last
\* first and read in that order
C15_Witness ==
  /\ tape.phase = "done"
  /\ \E p, q \in DOMAIN tape.writes :
       /\ p < q /\ SameBlock(tape.writes[p][1], tape.writes[q][1])
       /\ tape.writes[p][1] > tape.writes[q][1]
       /\ InstOrder(ReadKeys) = <<tape.writes[p][1], tape.writes[q][1]>>

(***************************************************************************)
(* DerivativeMaker::visitLoadInst under the flags cache_reads_always and   *)
(* cache_reads_never: the tape slots the loads of one function ask for,    *)
(* split (mode Forward, then mode Reverse) or combined (mode Both).        *)
(***************************************************************************)
MaxLoads == 2

\* a load and what the analyses say about it: pointer - the loaded type is
\* a possible pointer and not floating point; needed - the answer of
\* is_value_needed_in_reverse for the mode the function is built in
LoadInfo == [pointer : BOOLEAN, constantval : BOOLEAN, can_modref : BOOLEAN,
             needed : BOOLEAN]

\* the getIndex requests of one visit, in order (lines 622-663, 676-680)
visitLoadInst(mode, always, never, L) ==
  Opt(L.pointer /\ ~L.constantval /\ mode \in {"Forward", "Reverse"} /\ L.can_modref,
      "Shadow")
  \o Opt(always \/ (~never /\ L.can_modref /\ L.needed), "Self")

RECURSIVE Descending(_)
Descending(n) == IF n = 0 THEN <<>> ELSE <<n>> \o Descending(n - 1)

\* the assertion at line 671 excludes both flags being set
InitLoadFlags ==
  /\ BuildersIdle
  /\ diff = Idle /\ lmap = Idle /\ sig = Idle /\ cfg = Idle /\ heap = Idle
  /\ \E always, never, split \in BOOLEAN :
       \E n \in 1..MaxLoads :
         \E loads \in [1..n -> LoadInfo] :
           /\ ~(always /\ never)
           /\ tape = [loads |-> loads, always |-> always, never |-> never,
                      phase |-> IF split THEN "Forward" ELSE "Both",
                      walk |-> Descending(n),
                      tapeIndices |-> EmptyMap, mallocs |-> <<>>, writes |-> <<>>,
                      reads |-> <<>>]

\* the augmented builder (mode Forward) visits the next load
VisitLoadForward ==
  /\ tape.phase = "Forward" /\ tape.walk # <<>>
  /\ LET i == Head(tape.walk)
         kinds == visitLoadInst("Forward", tape.always, tape.never, tape.loads[i])
     IN tape' = [WriteSlots(tape, i, kinds) EXCEPT !.walk = Tail(@)]
  /\ UNCHANGED <<bvars, diff, lmap, sig, cfg, heap>>

\* the gradient builder takes over the recorded tapeIndices (lines 3382-3383)
BeginReverseLoads ==
  /\ tape.phase = "Forward" /\ tape.walk = <<>>
  /\ tape' = [tape EXCEPT !.phase = "Reverse", !.walk = Descending(Len(tape.loads))]
  /\ UNCHANGED <<bvars, diff, lmap, sig, cfg, heap>>

\* the gradient builder (mode Reverse) visits the next load
VisitLoadReverse ==
  /\ tape.phase = "Reverse" /\ tape.walk # <<>>
  /\ LET i == Head(tape.walk)
         kinds == visitLoadInst("Reverse", tape.always, tape.never, tape.loads[i])
         T == ReadSlots(tape, i, kinds)
     IN tape' = IF T.phase = "Reverse" THEN [T EXCEPT !.walk = Tail(@)] ELSE T
  /\ UNCHANGED <<bvars, diff, lmap, sig, cfg, heap>>

\* the combined builder (mode Both) visits the next load
VisitLoadBoth ==
  /\ tape.phase = "Both" /\ tape.walk # <<>>
  /\ LET i == Head(tape.walk)
         kinds == visitLoadInst("Both", tape.always, tape.never, tape.loads[i])
     IN tape' = [WriteSlots(tape, i, kinds) EXCEPT !.walk = Tail(@)]
  /\ UNCHANGED <<bvars, diff, lmap, sig, cfg, heap>>

NextLoadFlags == VisitLoadForward \/ BeginReverseLoads \/ VisitLoadReverse \/ VisitLoadBoth
SpecLoadFlags == InitLoadFlags /\ [][NextLoadFlags]_vars

\* C13: with cache_reads_never set no load has a tape slot allocated or
\* read, Self or Shadow, in mode Forward, Reverse or Both
C13_NeverFlagNoSlots ==
  tape.never => tape.tapeIndices = EmptyMap /\ tape.writes = <<>> /\ tape.reads = <<>>

\* what the flag does switch off when cache_reads_always is clear: the Self slots
C13_NeverFlagNoSelfSlots ==
  tape.never =>
    /\ \A k \in DOMAIN tape.tapeIndices : k[2] = "Shadow"
    /\ \A r \in DOMAIN tape.reads : tape.reads[r].key[2] = "Shadow"

\* every Shadow slot written in mode Forward is read back in mode Reverse
C13_ShadowSlotsReadBack ==
  (tape.phase = "Reverse" /\ tape.walk = <<>>) =>
     Keys(ReadKeys) = DOMAIN tape.tapeIndices

(***************************************************************************)
(* One call site handled by handleGradientCallInst and the gradient        *)
(* function it calls: the parameter list and the return struct the callee  *)
(* is built with, against the argument list and the struct reads of the    *)
(* call site.                                                              *)
(***************************************************************************)
ParamTypes == {"fp", "ptr"}
ReturnTypes == {"void", "fp", "ptr", "int"}
isFPOrFPVectorTy(t) == t = "fp"

\* a parameter of the callee with what the caller knows of its operand:
\* const - isConstantValue(operand); readonly - the parameter attribute
Param == [ty : ParamTypes, const : BOOLEAN, readonly : BOOLEAN]

\* a call site: called - direct (a defined function) or indirect (a function
\* pointer); active - !isConstantValue(op); replaceable - the call is the
\* last thing its block needs and its result has no use outside the block
IsCallSite(c) ==
  /\ \A i \in DOMAIN c.params : isFPOrFPVectorTy(c.params[i].ty) => ~c.params[i].readonly
  /\ c.ret = "void" => ~c.active /\ ~c.subretused
  /\ c.called = "indirect" =>
        /\ ~c.readnone /\ ~c.replaceable
        /\ \A i \in DOMAIN c.params : ~c.params[i].readonly

foreignFunction(c) == c.called = "indirect"

shouldAugmentCallAt(c) ==
  \/ c.called = "indirect" \/ ~c.readnone
  \/ (~isFPOrFPVectorTy(c.ret) /\ c.active)
  \/ \E i \in DOMAIN c.params :
       /\ ~(c.params[i].const /\ c.called = "direct")
       /\ ~isFPOrFPVectorTy(c.params[i].ty)
       /\ c.called = "direct" /\ ~c.params[i].readonly

\* lines 2511-2540: the classification of the call's operands
argsInverted(c) ==
  [i \in DOMAIN c.params |->
     IF c.params[i].const /\ ~foreignFunction(c) THEN "CONSTANT"
     ELSE IF ~isFPOrFPVectorTy(c.params[i].ty) THEN "DUP_ARG" ELSE "OUT_DIFF"]

RECURSIVE OperandArgs(_, _)
OperandArgs(c, i) ==
  IF i > Len(c.params) THEN <<>>
  ELSE <<c.params[i].ty>>
       \o (IF argsInverted(c)[i] = "DUP_ARG" THEN <<c.params[i].ty>> ELSE <<>>)
       \o OperandArgs(c, i + 1)

subconstant_argsAt(c) == {i \in DOMAIN c.params : argsInverted(c)[i] = "CONSTANT"}

\* lines 2542-2790: the call is replaced by a joint forward and reverse call
replaceFunction(c) ==
  /\ c.topLevel /\ ~foreignFunction(c) /\ c.replaceable
  /\ ~(c.subretused /\ c.ret = "ptr")

modifyPrimal(c) == shouldAugmentCallAt(c) /\ ~replaceFunction(c)

\* the tape value of the call site: none, the tape of a direct callee's
\* augmented primal, or the i8* tape of an indirect callee
TapeOf(c) ==
  IF ~modifyPrimal(c) THEN "none"
  ELSE IF c.called = "indirect" THEN "i8*" ELSE "tapeType"

retUsed(c) == replaceFunction(c) /\ c.subretused
subdiffereturn(c) == c.active
subdretptr(c) == c.active /\ c.ret \in {"ptr", "int"} /\ replaceFunction(c)
subtopLevel(c) == replaceFunction(c) \/ ~modifyPrimal(c)

\* the parameter list a cloned gradient function is given
RECURSIVE CloneParams(_, _, _)
CloneParams(c, constant_args, i) ==
  IF i > Len(c.params) THEN <<>>
  ELSE <<c.params[i].ty>>
       \o (IF i \notin constant_args /\ ~isFPOrFPVectorTy(c.params[i].ty)
           THEN <<c.params[i].ty>> ELSE <<>>)
       \o CloneParams(c, constant_args, i + 1)

RECURSIVE OutDiffs(_, _, _)
OutDiffs(c, constant_args, i) ==
  IF i > Len(c.params) THEN <<>>
  ELSE (IF i \notin constant_args /\ isFPOrFPVectorTy(c.params[i].ty)
        THEN <<[v |-> "diffe", arg |-> i]>> ELSE <<>>)
       \o OutDiffs(c, constant_args, i + 1)

\* the function CreateFromClone makes: parameters (original and shadow
\* arguments, the cotangent of a floating-point return, the tape) and the
\* fields of its return struct for the ReturnType asked for (Args,
\* ArgsWithReturn, ArgsWithTwoReturns)
CreateFromClone(c, constant_args, returnValue, differentialReturn, dretPtr, additionalArg) ==
  LET fields == (IF returnValue THEN (IF dretPtr THEN <<c.ret, c.ret>> ELSE <<c.ret>>)
                 ELSE <<>>)
                \o [i \in 1..Len(OutDiffs(c, constant_args, 1)) |-> "fp"]
  IN [params |-> CloneParams(c, constant_args, 1)
                   \o (IF differentialReturn /\ isFPOrFPVectorTy(c.ret) THEN <<c.ret>> ELSE <<>>)
                   \o (IF additionalArg # "none" THEN <<additionalArg>> ELSE <<>>),
      fields |-> fields,
      numElements |-> Len(fields)]

\* lines 1877-1909: the values the return block packs, in order
createInvertedTerminator(c, constant_args, retAlloca, dretAlloca) ==
  (IF retAlloca THEN <<[v |-> "retreload", arg |-> 0]>> ELSE <<>>)
  \o (IF dretAlloca THEN <<[v |-> "dretreload", arg |-> 0]>> ELSE <<>>)
  \o OutDiffs(c, constant_args, 1)

\* lines 1900-1904, 3830-3833: insertvalue i puts retargs[i] into field i of
\* the return struct; verifyFunction rejects a value of another type than
\* the field
verifyFunction(c, fields, retargs) ==
  /\ Len(retargs) <= Len(fields)
  /\ \A i \in DOMAIN retargs :
        fields[i] = (IF retargs[i].v = "diffe" THEN "fp" ELSE c.ret)

\* the signature and the packed return of the gradient CreatePrimalAndGradient
\* builds for the callee (lines 3211, 3311, 3462-3471), and whether it
\* passes the verifier (3830)
CreatePrimalAndGradientSig(c, constant_args, returnUsed, differentialReturn, dretPtr, topLevel, additionalArg) ==
  LET returnValue == returnUsed /\ topLevel
      clone == CreateFromClone(c, constant_args, returnValue, differentialReturn, dretPtr, additionalArg)
      retAlloca == returnValue
      dretAlloca == returnValue /\ dretPtr /\ ~isFPOrFPVectorTy(c.ret) /\ ~topLevel
      retargs == createInvertedTerminator(c, constant_args, retAlloca, dretAlloca)
  IN [FT |-> clone.params, numElements |-> clone.numElements,
      retargs |-> retargs,
      verified |-> verifyFunction(c, clone.fields, retargs)]

RECURSIVE DefaultArgs(_, _)
DefaultArgs(c, i) ==
  IF i > Len(c.params) THEN <<>>
  ELSE <<c.params[i].ty>>
       \o (IF ~isFPOrFPVectorTy(c.params[i].ty) THEN <<c.params[i].ty>> ELSE <<>>)
       \o DefaultArgs(c, i + 1)

\* lines 526-548
getDefaultFunctionTypeForGradient(c, differentialReturn) ==
  [first |-> DefaultArgs(c, 1)
               \o (IF c.ret # "void" /\ differentialReturn THEN <<c.ret>> ELSE <<>>),
   second |-> OutDiffs(c, {}, 1)]

SigStart(c) ==
  [site |-> c, pc |-> "start", args |-> <<>>, FT |-> <<>>, numElements |-> 0,
   retargs |-> <<>>, structidx |-> 0, reads |-> <<>>]

InitSig ==
  /\ BuildersIdle
  /\ diff = Idle /\ lmap = Idle /\ tape = Idle /\ cfg = Idle /\ heap = Idle
  /\ \E n \in 0..MaxParams :
       \E ps \in [1..n -> Param] :
         \E c \in [called : {"direct", "indirect"}, params : {ps}, ret : ReturnTypes,
                    active : BOOLEAN, subretused : BOOLEAN, topLevel : BOOLEAN,
                    readnone : BOOLEAN, replaceable : BOOLEAN] :
           IsCallSite(c) /\ sig = SigStart(c)

\* lines 3006-3027: the gradient to call is obtained
ObtainGradient ==
  /\ sig.pc = "start"
  /\ LET c == sig.site
     IN IF c.called = "direct"
        THEN LET g == CreatePrimalAndGradientSig(c, subconstant_argsAt(c), retUsed(c),
                        subdiffereturn(c), subdretptr(c), subtopLevel(c), TapeOf(c))
             IN sig' = [sig EXCEPT !.pc = IF g.verified THEN "obtained"
                                          ELSE "function failed verification (4)",
                                   !.args = IF g.verified THEN OperandArgs(c, 1) ELSE <<>>,
                                   !.FT = g.FT, !.numElements = g.numElements,
                                   !.retargs = g.retargs]
        ELSE IF subtopLevel(c)
        THEN sig' = [sig EXCEPT !.pc = "assert !subtopLevel"]
        ELSE LET res == getDefaultFunctionTypeForGradient(c, subdiffereturn(c))
             IN sig' = [sig EXCEPT !.pc = "obtained", !.args = OperandArgs(c, 1),
                                   !.FT = res.first \o <<"i8*">>,
                                   !.numElements = Len(res.second),
                                   !.retargs = res.second]
  /\ UNCHANGED <<bvars, diff, lmap, tape, cfg, heap>>

\* lines 3029-3071: the argument list is completed and checked against the
\* function type, and the call is emitted
EmitCall ==
  /\ sig.pc = "obtained"
  /\ LET c == sig.site
         args == sig.args
                 \o (IF subdiffereturn(c) /\ isFPOrFPVectorTy(c.ret) THEN <<c.ret>> ELSE <<>>)
                 \o (IF TapeOf(c) # "none" THEN <<TapeOf(c)>> ELSE <<>>)
     IN sig' = [sig EXCEPT !.args = args,
                           !.pc = IF args = sig.FT THEN "called" ELSE "badfn"]
  /\ UNCHANGED <<bvars, diff, lmap, tape, cfg, heap>>

RECURSIVE ExtractReads(_, _, _)
ExtractReads(c, i, structidx) ==
  IF i > Len(c.params) THEN <<>>
  ELSE IF argsInverted(c)[i] = "OUT_DIFF"
       THEN <<[arg |-> i, idx |-> structidx]>> \o ExtractReads(c, i + 1, structidx + 1)
       ELSE ExtractReads(c, i + 1, structidx)

\* lines 3075-3086: the differentials are read out of the returned struct.
\* CreateExtractValue with an index past the last field of the struct stops
\* a build of LLVM with assertions there ("checked"); one without them has
\* undefined behaviour and is followed on to line 3086
ExtractDiffes ==
  /\ sig.pc = "called"
  /\ \E build \in {"checked", "unchecked"} :
       LET c == sig.site
           start == (IF retUsed(c) THEN 1 ELSE 0) + (IF subdretptr(c) THEN 1 ELSE 0)
           reads == ExtractReads(c, 1, start)
           structidx == start + Len(reads)
           valid == SelectSeq(reads, LAMBDA r : r.idx < sig.numElements)
       IN IF valid # reads /\ build = "checked"
          THEN sig' = [sig EXCEPT !.reads = valid, !.structidx = start + Len(valid),
                                  !.pc = "CreateExtractValue: invalid index"]   \* 3080
          ELSE sig' = [sig EXCEPT !.reads = reads, !.structidx = structidx,
                                  !.pc = IF sig.numElements = structidx THEN "done"
                                         ELSE "assert getNumElements() == structidx"]
  /\ UNCHANGED <<bvars, diff, lmap, tape, cfg, heap>>

NextSig == ObtainGradient \/ EmitCall \/ ExtractDiffes
SpecSig == InitSig /\ [][NextSig]_vars

\* what the claim says the return block packs for a direct callee
StatedPacking(c) ==
  (IF retUsed(c) THEN <<[v |-> "retreload", arg |-> 0]>> ELSE <<>>)
  \o (IF subdretptr(c) THEN <<[v |-> "dretreload", arg |-> 0]>> ELSE <<>>)
  \o OutDiffs(c, subconstant_argsAt(c), 1)

\* C9: the return block packs the primal return (if requested), the shadow
\* return (if requested) and the differentials of the active float
\* parameters in parameter order; the call site reads each OUT_DIFF
\* argument's differential from the field the callee put it in, and the
\* final index equals the number of fields, so the assertion at the call
\* site does not fail.
C9_ReturnLayoutAgrees ==
  sig.pc \in {"called", "done", "assert getNumElements() == structidx",
              "CreateExtractValue: invalid index"} =>
    /\ sig.site.called = "direct" => sig.retargs = StatedPacking(sig.site)
    /\ sig.pc # "assert getNumElements() == structidx"
    /\ sig.pc # "CreateExtractValue: invalid index"
    /\ sig.pc = "done" =>
          /\ sig.structidx = sig.numElements
          /\ \A k \in DOMAIN sig.reads :
                /\ sig.reads[k].idx < Len(sig.retargs)
                /\ sig.retargs[sig.reads[k].idx + 1] = [v |-> "diffe", arg |-> sig.reads[k].arg]

\* C10: the parameter list of the called gradient is the original and
\* shadow arguments, a cotangent exactly when the primal return is
\* floating-point and differentiated, and the optional tape; the call site's
\* argument list has the same length and types, for direct and indirect
\* callees, so the shape-mismatch abort is not reached.
C10_CallShapeAgrees ==
  sig.pc \in {"called", "done", "badfn", "assert getNumElements() == structidx",
              "CreateExtractValue: invalid index"} =>
    /\ sig.pc # "badfn"
    /\ sig.args = sig.FT
    /\ sig.FT = OperandArgs(sig.site, 1)
                  \o (IF sig.site.active /\ isFPOrFPVectorTy(sig.site.ret)
                      THEN <<sig.site.ret>> ELSE <<>>)
                  \o (IF TapeOf(sig.site) # "none" THEN <<TapeOf(sig.site)>> ELSE <<>>)

(***************************************************************************)
(* getGuaranteedUnreachable as a worklist machine, followed by the block   *)
(* walks of the two builders and the removal of dead reverse blocks.       *)
(***************************************************************************)
FBlocks == 1..MaxBlocks
Terminators == {"ret", "unreachable", "br"}

\* a function body: successors and terminator kind of every block; the
\* entry block is nobody's successor, and exactly the branches have
\* successors
IsFunctionCFG(F) ==
  \A b \in FBlocks : (F.term[b] = "br") <=> (F.succ[b] # {})

predecessors(F, b) == {p \in FBlocks : b \in F.succ[p]}

RECURSIVE Ascending(_)
Ascending(S) ==
  IF S = {} THEN <<>>
  ELSE LET x == CHOOSE y \in S : \A z \in S : y <= z
       IN <<x>> \o Ascending(S \ {x})

\* the sequences that list the elements of S once each: the orders in which
\* a use list or a map keyed by addresses can hold them
Orderings(S) ==
  {o \in [1..Cardinality(S) -> S] : \A i, j \in 1..Cardinality(S) : o[i] = o[j] => i = j}

AllSuccessorsKnown_Any(F, known, b) == \E x \in F.succ[b] : x \in known

\* lines 1375-1381
AllSuccessorsKnown(F, known, b) == \A x \in F.succ[b] : x \in known

\* one iteration of the loop at lines 1359-1389; order is predecessors(next)
\* as LLVM lists them, which is the order of the use list of next
UnreachableIteration(F, todo, known, order) ==
  LET next == Head(todo)
      rest == Tail(todo)
      insert == [todo |-> rest \o order, known |-> known \cup {next}]
      skip == [todo |-> rest, known |-> known]
  IN IF next \in known THEN skip
     ELSE IF F.term[next] = "ret" THEN skip
     ELSE IF F.term[next] = "unreachable" THEN insert
     ELSE IF ~AllSuccessorsKnown(F, known, next) THEN skip
     ELSE insert

\* the reverse-side block control passes to when edge pred -> b is undone,
\* named by the block it belongs to
getReverseOrLatchMerge(pred, b) == pred

\* gutils->getContext(BB, loopContext) as createInvertedTerminator uses it:
\* whether b is the header of a loop whose preheader is among its
\* predecessors, and that preheader (0: none).  The latches of b are its
\* predecessors that can be reached from the entry block and that b
\* dominates; the preheader is the one predecessor from outside the loop
getContext(F, b) ==
  LET latches == {p \in predecessors(F, b) :
                    /\ p \in ReachFrom(F.succ, {EntryBlock}, {})
                    /\ BlockDominates(F.succ, b, p)}
      outside == predecessors(F, b) \ latches
      header == latches # {} /\ Cardinality(outside) = 1
  IN [header |-> header,
      preheader |-> IF header THEN CHOOSE p \in outside : TRUE ELSE 0]

SkipsBlock_Never(known, b) == FALSE

\* lines 1613 and 3528
SkipsBlock(known, b) == b \in known

InitCFG ==
  /\ BuildersIdle
  /\ diff = Idle /\ lmap = Idle /\ tape = Idle /\ sig = Idle /\ heap = Idle
  /\ \E succ \in [FBlocks -> SUBSET (FBlocks \ {1})], term \in [FBlocks -> Terminators] :
       /\ IsFunctionCFG([succ |-> succ, term |-> term])
       /\ cfg = [F |-> [succ |-> succ, term |-> term],
                 loops |-> [b \in FBlocks |-> getContext([succ |-> succ, term |-> term], b)],
                 phase |-> "analyse",
                 todo |-> Ascending(FBlocks), knownUnreachables |-> {}, steps |-> 0,
                 next |-> 1, augmented |-> {}, adjoint |-> {}, inverted |-> {},
                 branches |-> {}, returns |-> {}, deleted |-> {}]

\* getGuaranteedUnreachable: one iteration of its loop
UnreachableStep ==
  /\ cfg.phase = "analyse" /\ cfg.todo # <<>>
  /\ \E order \in Orderings(predecessors(cfg.F, Head(cfg.todo))) :
       LET r == UnreachableIteration(cfg.F, cfg.todo, cfg.knownUnreachables, order)
       IN cfg' = [cfg EXCEPT !.todo = r.todo, !.knownUnreachables = r.known,
                             !.steps = @ + 1]
  /\ UNCHANGED <<bvars, diff, lmap, tape, sig, heap>>

\* getGuaranteedUnreachable returns
UnreachableReturn ==
  /\ cfg.phase = "analyse" /\ cfg.todo = <<>>
  /\ cfg' = [cfg EXCEPT !.phase = "forward"]
  /\ UNCHANGED <<bvars, diff, lmap, tape, sig, heap>>

\* CreateAugmentedPrimal, lines 1607-1634: the next block of the body walk
AugmentBlock ==
  /\ cfg.phase = "forward"
  /\ LET b == cfg.next
     IN cfg' = [cfg EXCEPT
                  !.augmented = IF SkipsBlock(cfg.knownUnreachables, b) THEN @ ELSE @ \cup {b},
                  !.next = IF b = MaxBlocks THEN 1 ELSE b + 1,
                  !.phase = IF b = MaxBlocks THEN "reverse" ELSE @]
  /\ UNCHANGED <<bvars, diff, lmap, tape, sig, heap>>

\* createInvertedTerminator, lines 1872-1877 and 1981-2030: the reverse
\* blocks the inverted terminator of b branches to.  The reverse block of a
\* loop header gets one conditional branch, to the block of the preheader
\* and to targetToPreds.begin()->first, the first of the other targets in a
\* map ordered by the addresses of the blocks; every other block branches to
\* the blocks of all its predecessors
InvertedTargets(F, loopContext, b, first) ==
  IF loopContext.header
  THEN {getReverseOrLatchMerge(loopContext.preheader, b), first}
  ELSE {getReverseOrLatchMerge(p, b) : p \in predecessors(F, b)}

\* CreatePrimalAndGradient, lines 3525-3750: the next block of the body
\* walk gets its adjoint code and its inverted terminator, which returns
\* when the block has no predecessor and otherwise branches to reverse
\* blocks of its predecessors
InvertBlock ==
  /\ cfg.phase = "reverse"
  /\ LET b == cfg.next
         loopContext == cfg.loops[b]
         others == {getReverseOrLatchMerge(p, b) :
                      p \in predecessors(cfg.F, b) \ {loopContext.preheader}}
         walked == [cfg EXCEPT !.next = IF b = MaxBlocks THEN 1 ELSE b + 1,
                               !.phase = IF b = MaxBlocks THEN "cleanup" ELSE @]
     IN IF SkipsBlock(cfg.knownUnreachables, b) THEN cfg' = walked
        ELSE IF predecessors(cfg.F, b) = {}                          \* 1877-1909
        THEN cfg' = [walked EXCEPT !.adjoint = @ \cup {b}, !.inverted = @ \cup {b},
                                   !.returns = @ \cup {b}]
        ELSE IF loopContext.header /\ others = {}                      \* 1988
        THEN cfg' = [cfg EXCEPT !.adjoint = @ \cup {b},
                       !.phase = "only loops with one backedge are presently supported"]
        ELSE \E first \in others :
               cfg' = [walked EXCEPT
                         !.adjoint = @ \cup {b},
                         !.inverted = @ \cup {b},
                         !.branches = @ \cup {<<b, t>> : t \in
                                         InvertedTargets(cfg.F, loopContext, b, first)}]
  /\ UNCHANGED <<bvars, diff, lmap, tape, sig, heap>>

\* lines 3802-3807, one pass over reverseBlocks in the order of the map: a
\* reverse block nothing branches to is deleted together with its
\* terminator; a returning block branches to its own reverse block (3520)
RECURSIVE DeleteDeadBlocks(_, _, _, _)
DeleteDeadBlocks(F, order, branches, deleted) ==
  IF order = <<>> THEN [branches |-> branches, deleted |-> deleted]
  ELSE LET b == Head(order)
       IN IF F.term[b] # "ret" /\ ~\E e \in branches : e[2] = b
          THEN DeleteDeadBlocks(F, Tail(order), {e \in branches : e[1] # b},
                                deleted \cup {b})
          ELSE DeleteDeadBlocks(F, Tail(order), branches, deleted)

\* lines 3802-3807
DeleteDeadReverseBlocks ==
  /\ cfg.phase = "cleanup"
  /\ \E order \in Orderings(FBlocks) :
       LET r == DeleteDeadBlocks(cfg.F, order, cfg.branches, {})
       IN cfg' = [cfg EXCEPT !.phase = "done", !.branches = r.branches,
                             !.deleted = r.deleted]
  /\ UNCHANGED <<bvars, diff, lmap, tape, sig, heap>>

NextCFG == UnreachableStep \/ UnreachableReturn \/ AugmentBlock \/ InvertBlock
             \/ DeleteDeadReverseBlocks
SpecCFG == InitCFG /\ [][NextCFG]_vars

\* the function of the example: entry branches to a block that returns and
\* to a block that ends in unreachable
IfThenUnreachable(F) ==
  /\ F.succ[1] = {2, 3} /\ F.term[2] = "ret" /\ F.term[3] = "unreachable"

\* C12: once the set U has been computed, no block of U gets augmented
\* forward code, adjoint code or an inverted terminator; U is closed under
\* successors, so no reverse block of a block outside U branches to the
\* reverse block of a block in U; the reverse blocks of U end up deleted;
\* and in the if/else example only the returning branch has reverse code.
C12_NoReverseCodeForUnreachable ==
  cfg.phase # "analyse" =>
    LET U == cfg.knownUnreachables
    IN /\ \A b \in U : cfg.F.succ[b] \subseteq U
       /\ U \cap (cfg.augmented \cup cfg.adjoint \cup cfg.inverted) = {}
       /\ \A e \in cfg.branches : e[1] \notin U /\ e[2] \notin U
       /\ cfg.phase = "done" =>
             /\ U \subseteq cfg.deleted
             /\ cfg.adjoint = FBlocks \ U
             /\ IfThenUnreachable(cfg.F) =>
                   {1, 2} \subseteq cfg.adjoint /\ 3 \in U /\ 3 \notin cfg.adjoint

\* the example function has been processed to the end
C12_Witness ==
  /\ cfg.phase = "done" /\ IfThenUnreachable(cfg.F)
  /\ <<2, 1>> \in cfg.branches /\ 3 \in cfg.deleted /\ cfg.adjoint = {1, 2}

\* the least set holding the unreachable-terminated blocks and every
\* non-return block all of whose successors it holds
RECURSIVE LeastClosed(_, _)
LeastClosed(F, S) ==
  LET T == S \cup {b \in FBlocks : F.term[b] = "unreachable"}
             \cup {b \in FBlocks : F.term[b] = "br" /\ F.succ[b] \subseteq S}
  IN IF T = S THEN S ELSE LeastClosed(F, T)

Below(F, b) == ReachFrom(F.succ, {b}, {})
OnCycle(F, b) == b \in ReachFrom(F.succ, F.succ[b], {})

\* the blocks from which every path ends at an unreachable terminator: no
\* return and no cycle can be reached
Inevitable(F) ==
  {b \in FBlocks : \A x \in Below(F, b) : F.term[x] # "ret" /\ ~OnCycle(F, x)}

Edges(F) == {e \in FBlocks \X FBlocks : e[2] \in F.succ[e[1]]}

\* C16: getGuaranteedUnreachable terminates on every control-flow graph,
\* loops included (its iterations are bounded by blocks plus edges), and
\* returns exactly the blocks from which every path reaches an unreachable
\* terminator, which is the least set closed under the two rules; it holds
\* no returning block and no returning block is reachable from it.
C16_ExactlyTheDoomedBlocks ==
  /\ cfg.steps + Len(cfg.todo) <= MaxBlocks + Cardinality(Edges(cfg.F))
  /\ cfg.knownUnreachables \subseteq LeastClosed(cfg.F, {})
  /\ cfg.phase # "analyse" =>
        /\ cfg.knownUnreachables = LeastClosed(cfg.F, {})
        /\ cfg.knownUnreachables = Inevitable(cfg.F)
        /\ \A b \in cfg.knownUnreachables :
              \A x \in Below(cfg.F, b) : cfg.F.term[x] # "ret"

\* the analysis has returned for a graph with a loop that can be left
\* towards a returning block, and with a branching block in the result
C16_Witness ==
  /\ cfg.phase = "forward"
  /\ \E b \in cfg.knownUnreachables : cfg.F.term[b] = "br"
  /\ \E x \in FBlocks :
       /\ OnCycle(cfg.F, x) /\ x \notin cfg.knownUnreachables
       /\ \E y \in cfg.F.succ[x] : y \in cfg.knownUnreachables

(***************************************************************************)
(* Allocation and deallocation calls of one function built at top level    *)
(* (mode Both): the gradient builder walks the body from last to first,    *)
(* erases or keeps forward calls and appends to the reverse pass; the      *)
(* generated forward and reverse code is then run on a heap.               *)
(***************************************************************************)
MaxBody == 3

AllocFns == {"malloc", "_Znwm"}
FreeFns == {"free", "_ZdlPv", "_ZdlPvm"}

\* the memory accesses the builders tell apart: a store or a load of a
\* floating-point value, a store or a load of a pointer
AccessKinds == {"storefp", "loadfp", "storeptr", "loadptr"}

\* src names the instruction that produced the pointer operand; cast says
\* that an allocation names its callee through a constant cast expression
\* (call i8* bitcast (i8* (i32)* @malloc to i8* (i64)*)(i64 8)); acc is the
\* kind of a memory access
HeapInst ==
  [kind : {"alloc"}, fn : AllocFns, constval : BOOLEAN, src : {0},
   cast : BOOLEAN, acc : {"none"}]
  \cup [kind : {"call"}, fn : {"none"}, constval : {TRUE}, src : {0},
        cast : {FALSE}, acc : {"none"}]
  \cup [kind : {"use"}, fn : {"none"}, constval : BOOLEAN, src : 1..MaxBody,
        cast : {FALSE}, acc : AccessKinds]
  \cup [kind : {"free"}, fn : FreeFns, constval : BOOLEAN, src : 1..MaxBody,
        cast : {FALSE}, acc : {"none"}]

Matches(allocfn, freefn) ==
  \/ allocfn = "malloc" /\ freefn = "free"
  \/ allocfn = "_Znwm" /\ freefn \in {"_ZdlPv", "_ZdlPvm"}

\* a body the original program can have: operands are defined earlier, a
\* buffer is released at most once, by the matching function, after its uses
IsHeapBody(body) ==
  \A i \in DOMAIN body :
    LET I == body[i] IN
    /\ I.kind = "alloc" => I.fn \in AllocFns /\ I.src = 0
    /\ I.kind = "call" => I.fn = "none" /\ I.src = 0 /\ I.constval
    /\ I.kind \in {"use", "free"} =>
         /\ I.src \in 1..(i - 1) /\ body[I.src].kind \in {"alloc", "call"}
         /\ I.constval = body[I.src].constval
         /\ \A j \in 1..(i - 1) : ~(body[j].kind = "free" /\ body[j].src = I.src)
    /\ I.kind = "use" => I.fn = "none"
    /\ I.kind = "free" =>
         /\ I.fn \in FreeFns
         /\ body[I.src].kind = "alloc" => Matches(body[I.src].fn, I.fn)

\* freeKnownAllocation: the deallocation call that belongs to an allocation
freeKnownAllocation(buf) == [op |-> "free", buf |-> buf]

\* lines 2381-2424 with topLevel set: the shadow is released when the
\* pointer is not constant, then the primal
AllocationReverse(i, I) ==
  (IF I.constval THEN <<>> ELSE <<freeKnownAllocation(<<i, "shadow">>)>>)
  \o <<freeKnownAllocation(<<i, "primal">>)>>

\* a memory access in the forward pass.  A store of a pointer through a
\* non-constant pointer is preceded by the store to the shadow (766-784,
\* storeBuilder(&SI)), a load of a pointer by the load of its shadow
\* (invertPointerM(&LI), 622-641); a floating-point access and an access
\* through a constant pointer stay as they are (704, 736, 751-764)
UseOps(I) ==
  (IF ~I.constval /\ I.acc \in {"storeptr", "loadptr"}
   THEN <<[op |-> "use", buf |-> <<I.src, "shadow">>]>> ELSE <<>>)
  \o <<[op |-> "use", buf |-> <<I.src, "primal">>]>>

\* lines 703-704, 718-727 (load) and 736, 751-763 (store): the reverse of a
\* floating-point access through a non-constant pointer is an access
\* through invertPointerM(ptr), the shadow; a pointer access and an access
\* through a constant pointer have no reverse
ReverseUseOps(I) ==
  IF ~I.constval /\ I.acc \in {"storefp", "loadfp"}
  THEN <<[op |-> "use", buf |-> <<I.src, "shadow">>]>> ELSE <<>>

\* lines 2436-2441 and 2463-2468 call getName() on
\* dc->getCalledFunction(), which is null when the operand comes from an
\* indirect call and when it comes from an allocation whose callee is a
\* constant cast expression (which 2333-2341 look through)
NullCallee(body, I) == body[I.src].kind = "call" \/ body[I.src].cast

InitHeap ==
  /\ BuildersIdle
  /\ diff = Idle /\ lmap = Idle /\ tape = Idle /\ sig = Idle /\ cfg = Idle
  /\ \E n \in 1..MaxBody :
       \E body \in [1..n -> HeapInst] :
         /\ IsHeapBody(body)
         /\ heap = [body |-> body, phase |-> "build", next |-> n, erased |-> {},
                    anti |-> {}, rev |-> <<>>, code |-> <<>>, pc |-> 1,
                    live |-> {}, freed |-> {}, faults |-> {}]

\* handleGradientCallInst on an allocation call (2381-2424)
VisitAllocation ==
  /\ heap.phase = "build" /\ heap.next > 0
  /\ LET i == heap.next
         I == heap.body[i]
     IN /\ I.kind = "alloc"
        /\ heap' = [heap EXCEPT !.next = i - 1,
                                !.anti = IF I.constval THEN @ ELSE @ \cup {i},
                                !.rev = @ \o AllocationReverse(i, I)]
  /\ UNCHANGED <<bvars, diff, lmap, tape, sig, cfg>>

\* handleGradientCallInst on free (2427-2452) and on operator delete
\* (2454-2476): every path that returns erases the call
VisitFree ==
  /\ heap.phase = "build" /\ heap.next > 0
  /\ LET i == heap.next
         I == heap.body[i]
     IN /\ I.kind = "free"
        /\ \/ heap' = [heap EXCEPT !.next = i - 1, !.erased = @ \cup {i}]
           \/ /\ NullCallee(heap.body, I)
              /\ heap' = [heap EXCEPT !.phase = "crashed"]
  /\ UNCHANGED <<bvars, diff, lmap, tape, sig, cfg>>

\* a memory access, or a call that is a constant instruction (2489-2496)
VisitOther ==
  /\ heap.phase = "build" /\ heap.next > 0
  /\ LET i == heap.next
         I == heap.body[i]
     IN /\ I.kind \in {"use", "call"}
        /\ heap' = [heap EXCEPT !.next = i - 1,
                                !.rev = @ \o (IF I.kind = "use" THEN ReverseUseOps(I) ELSE <<>>)]
  /\ UNCHANGED <<bvars, diff, lmap, tape, sig, cfg>>

\* the forward pass that is left: the body without the erased calls, every
\* anti-allocation behind its allocation
RECURSIVE ForwardCode(_, _, _, _)
ForwardCode(body, erased, anti, i) ==
  IF i > Len(body) THEN <<>>
  ELSE LET I == body[i]
           ops == CASE i \in erased -> <<>>
                    [] I.kind \in {"alloc", "call"} ->
                         <<[op |-> "alloc", buf |-> <<i, "primal">>]>>
                         \o (IF i \in anti THEN <<[op |-> "alloc", buf |-> <<i, "shadow">>]>> ELSE <<>>)
                    [] I.kind = "use" -> UseOps(I)
                    [] I.kind = "free" -> <<[op |-> "free", buf |-> <<I.src, "primal">>]>>
       IN ops \o ForwardCode(body, erased, anti, i + 1)

\* the walk is complete: the function is the forward pass followed by the
\* reverse pass
FinishHeapBuild ==
  /\ heap.phase = "build" /\ heap.next = 0
  /\ heap' = [heap EXCEPT !.phase = "run",
                          !.code = ForwardCode(heap.body, heap.erased, heap.anti, 1) \o heap.rev]
  /\ UNCHANGED <<bvars, diff, lmap, tape, sig, cfg>>

\* the generated function executes its next operation
RunHeapOp ==
  /\ heap.phase = "run"
  /\ IF heap.pc > Len(heap.code)
     THEN heap' = [heap EXCEPT !.phase = "done"]
     ELSE LET o == heap.code[heap.pc]
              b == o.buf
          IN heap' = [heap EXCEPT
               !.pc = @ + 1,
               !.live = CASE o.op = "alloc" -> @ \cup {b}
                          [] o.op = "free" -> @ \ {b}
                          [] OTHER -> @,
               !.freed = IF o.op = "free" THEN @ \cup {b} ELSE @,
               !.faults = CASE o.op = "free" /\ b \in heap.freed -> @ \cup {"double free"}
                            [] o.op = "free" /\ b \notin heap.live \cup heap.freed ->
                                 @ \cup {"free of unallocated"}
                            [] o.op = "use" /\ b \notin heap.live -> @ \cup {"use after free"}
                            [] OTHER -> @]
  /\ UNCHANGED <<bvars, diff, lmap, tape, sig, cfg>>

NextHeap == VisitAllocation \/ VisitFree \/ VisitOther \/ FinishHeapBuild \/ RunHeapOp
SpecHeap == InitHeap /\ [][NextHeap]_vars

FreeCalls == {i \in DOMAIN heap.body : heap.body[i].kind = "free"}
Allocations == {i \in DOMAIN heap.body : heap.body[i].kind = "alloc"}
Visited == (heap.next + 1)..Len(heap.body)

\* C14: at top level every free/delete call is removed from the forward
\* pass, every allocation that runs has its primal (and, when not constant,
\* its shadow) released exactly once by the reverse pass after the last
\* use, and no buffer is released twice or used after its release
C14_FreesMovedToReverse ==
  /\ heap.phase # "crashed"
  /\ FreeCalls \cap Visited \subseteq heap.erased
  /\ heap.faults = {}
  /\ heap.phase = "done" =>
       \A i \in Allocations :
         /\ <<i, "primal">> \in heap.freed /\ <<i, "primal">> \notin heap.live
         /\ ~heap.body[i].constval =>
              <<i, "shadow">> \in heap.freed /\ <<i, "shadow">> \notin heap.live
         /\ heap.body[i].constval => <<i, "shadow">> \notin heap.freed

\* the same statement holds of every build that does not stop at a free or
\* delete of the result of an indirect call
HeapSoundUnlessCrashed ==
  heap.phase # "crashed" =>
    /\ FreeCalls \cap Visited \subseteq heap.erased
    /\ heap.faults = {}
    /\ heap.phase = "done" =>
         \A i \in Allocations :
           /\ <<i, "primal">> \in heap.freed /\ <<i, "primal">> \notin heap.live
           /\ ~heap.body[i].constval => <<i, "shadow">> \in heap.freed

(***************************************************************************)
(* compute_uncacheable_args_for_one_callsite along a chain of calls: the   *)
(* map computed for a call site is the inherited map of its callee.        *)
(***************************************************************************)
MaxChain == 2

ArgIdx == {1, 2}

\* an argument of the call site: its underlying object (a: the parent
\* argument it is, when it is one) and whether its type is a pointer
CallArg == [obj : {"arg", "malloc", "call", "other"}, a : {0} \cup ArgIdx,
            pointer : BOOLEAN]

\* another instruction of the parent: whether it dominates the call site
\* and, per argument, the oracle's verdict that it may write its location
OtherInst == [kind : {"store", "call", "allocfree", "other"}, dominates : BOOLEAN,
              mods : [ArgIdx -> BOOLEAN]]

IsSite(parent, args) ==
  \A i \in DOMAIN args :
    /\ args[i].obj = "arg" <=> args[i].a # 0
    /\ args[i].a # 0 => args[i].a \in DOMAIN parent

IsOtherInst(J, args) ==
  /\ \A i \in ArgIdx \ DOMAIN args : ~J.mods[i]
  /\ J.kind = "other" => \A i \in ArgIdx : ~J.mods[i]

\* lines 178-229: the verdict inherited from the underlying object
init_safe(parent, arg) ==
  CASE arg.obj = "arg" -> ~parent[arg.a]
    [] arg.obj = "malloc" -> TRUE
    [] arg.obj = "call" -> FALSE
    [] arg.obj = "other" -> FALSE

\* lines 286-295: a call is checked against pointer arguments only
CallMayWrite_AnyArgument(J, args, i) == J.mods[i]
CallMayWrite(J, args, i) == args[i].pointer /\ J.mods[i]

\* lines 235-299: one instruction of the parent against every argument
ScanForArgs(J, args, safe) ==
  IF J.dominates THEN safe
  ELSE CASE J.kind = "store" -> [i \in DOMAIN safe |-> safe[i] /\ ~J.mods[i]]
         [] J.kind = "call" -> [i \in DOMAIN safe |-> safe[i] /\ ~CallMayWrite(J, args, i)]
         [] OTHER -> safe

\* the arguments that descend from an argument the root caller marked
Descendants(args, tainted) ==
  {i \in DOMAIN args : args[i].obj = "arg" /\ args[i].a \in tainted}

ChooseSite(parent, tainted, depth) ==
  \E direct \in BOOLEAN, n \in ArgIdx, m \in 0..MaxOthers :
    \E args \in [1..n -> CallArg] :
      /\ IsSite(parent, args)
      /\ lmap' = [parent |-> parent, tainted |-> tainted, depth |-> depth,
                  direct |-> direct, args |-> args, others |-> m, inst |-> <<>>,
                  written |-> {}, phase |-> "propagate", j |-> 1, args_safe |-> <<>>,
                  uncacheable_args |-> <<>>]

InitArgs ==
  /\ BuildersIdle
  /\ diff = Idle /\ tape = Idle /\ sig = Idle /\ cfg = Idle /\ heap = Idle
  /\ \E n \in ArgIdx :
       \E parent \in [1..n -> BOOLEAN] :
         lmap = [parent |-> parent, tainted |-> {i \in 1..n : parent[i]}, depth |-> 0,
                 direct |-> TRUE, args |-> <<>>, others |-> 0, inst |-> <<>>,
                 written |-> {}, phase |-> "entered", j |-> 1, args_safe |-> <<>>,
                 uncacheable_args |-> parent]

\* the builder of a function reaches one of its call sites (lines 315-350)
\* with the map the function inherited
ReachCallSite ==
  /\ lmap.phase = "entered"
  /\ ChooseSite(lmap.uncacheable_args, lmap.tainted, lmap.depth + 1)
  /\ UNCHANGED <<bvars, diff, tape, sig, cfg, heap>>

\* first loop, lines 178-229
PropagateFromParent ==
  /\ lmap.phase = "propagate"
  /\ lmap' = [lmap EXCEPT !.args_safe = [i \in DOMAIN lmap.args |->
                                           init_safe(lmap.parent, lmap.args[i])],
                          !.phase = "scan"]
  /\ UNCHANGED <<bvars, diff, tape, sig, cfg, heap>>

\* the arguments whose location instruction J may write, in the words of
\* the claim: J does not dominate the call site and is a store, or a
\* non-allocation call and the argument a pointer
MayBeWritten(J, args) ==
  {i \in DOMAIN args :
     ~J.dominates /\ J.mods[i] /\ (J.kind = "store" \/ (J.kind = "call" /\ args[i].pointer))}

\* second loop, lines 233-299: the next instruction of the parent (inst and
\* written keep the history of the scan)
ScanContinuation ==
  /\ lmap.phase = "scan" /\ lmap.j <= lmap.others
  /\ \E J \in OtherInst :
       /\ IsOtherInst(J, lmap.args)
       /\ lmap' = [lmap EXCEPT !.args_safe = ScanForArgs(J, lmap.args, @),
                               !.inst = <<J>>,
                               !.written = @ \cup MayBeWritten(J, lmap.args),
                               !.j = @ + 1]
  /\ UNCHANGED <<bvars, diff, tape, sig, cfg, heap>>

\* lines 301-312: the map over the callee's formal parameters; empty when
\* the callee is not known
PublishArgs ==
  /\ lmap.phase = "scan" /\ lmap.j > lmap.others
  /\ lmap' = [lmap EXCEPT
       !.uncacheable_args = IF lmap.direct
                            THEN [i \in DOMAIN lmap.args |-> ~lmap.args_safe[i]]
                            ELSE <<>>,
       !.tainted = Descendants(lmap.args, @),
       !.phase = "published"]
  /\ UNCHANGED <<bvars, diff, tape, sig, cfg, heap>>

\* the callee is built with the published map as its inherited map
EnterCallee ==
  /\ lmap.phase = "published" /\ lmap.direct /\ lmap.depth < MaxChain
  /\ lmap' = [lmap EXCEPT !.phase = "entered", !.args = <<>>, !.others = 0,
                          !.inst = <<>>, !.written = {}, !.args_safe = <<>>,
                          !.parent = <<>>, !.j = 1]
  /\ UNCHANGED <<bvars, diff, tape, sig, cfg, heap>>

NextArgs ==
  ReachCallSite \/ PropagateFromParent \/ ScanContinuation \/ PublishArgs \/ EnterCallee
SpecArgs == InitArgs /\ [][NextArgs]_vars

\* the condition of the claim for argument i
StatedUncacheableArg(i) ==
  LET arg == lmap.args[i] IN
  \/ arg.obj = "arg" /\ lmap.parent[arg.a]
  \/ arg.obj \notin {"arg", "malloc"}
  \/ i \in lmap.written

\* C18: for a direct callee the i-th formal parameter is mapped to true
\* exactly when argument i's underlying object is classified uncacheable or
\* a non-dominating store, or non-allocation call with argument i a
\* pointer, may write its location; a pointer that descends from an
\* argument the root caller marked uncacheable stays uncacheable down the
\* chain
C18_ArgsExactlyWhenUnsafe ==
  (lmap.phase = "published" /\ lmap.direct) =>
     /\ lmap.depth > 0 =>
          /\ DOMAIN lmap.uncacheable_args = DOMAIN lmap.args
          /\ \A i \in DOMAIN lmap.args : lmap.uncacheable_args[i] <=> StatedUncacheableArg(i)
     /\ \A i \in lmap.tainted : lmap.uncacheable_args[i]

C18_Witness ==
  /\ lmap.phase = "published" /\ lmap.direct /\ lmap.depth = MaxChain
  /\ \E i, k \in DOMAIN lmap.args :
       /\ i \in lmap.tainted /\ lmap.uncacheable_args[i]
       /\ ~lmap.args[k].pointer /\ ~lmap.uncacheable_args[k]
       /\ lmap.args[k].obj = "malloc"
       /\ \E j \in DOMAIN lmap.inst :
            lmap.inst[j].kind = "call" /\ ~lmap.inst[j].dominates /\ lmap.inst[j].mods[k]

(***************************************************************************)
(* shouldAugmentCall as a function of what it reads from the call: the     *)
(* callee, its attributes, the result, the operands and the terminator of  *)
(* the block the call is in.                                               *)
(***************************************************************************)
Callees == {"indirect", "declaration", "defined"}
ParamAttrs == {"none", "readonly", "readnone"}

AugParam == [ty : ParamTypes, const : BOOLEAN, attr : ParamAttrs]

\* an indirect call has no callee to carry attributes
IsAugOp(op) ==
  op.called = "indirect" =>
    /\ ~op.readnone
    /\ \A i \in DOMAIN op.params : op.params[i].attr = "none"

\* lines 2072-2085: the loop over the operands, from operand i on
RECURSIVE AugmentArgs(_, _, _)
AugmentArgs(op, i, mp) ==
  IF i > Len(op.params) THEN mp
  ELSE LET p == op.params[i] IN
       IF p.const /\ op.called = "defined" THEN AugmentArgs(op, i + 1, mp)
       ELSE IF ~isFPOrFPVectorTy(p.ty)
               /\ op.called # "indirect" /\ ~(p.attr = "readonly" \/ p.attr = "readnone")
            THEN AugmentArgs(op, i + 1, TRUE)
            ELSE AugmentArgs(op, i + 1, mp)

\* line 2088: isa<UnreachableInst>(op->getParent()->getTerminator())
EndsInUnreachable_Never(op) == FALSE
EndsInUnreachable(op) == op.unreachable

\* lines 2055-2093
shouldAugmentCallOf(op) ==
  LET m0 == op.called = "indirect" \/ ~op.readnone
      m1 == IF ~isFPOrFPVectorTy(op.ret) /\ op.active THEN TRUE ELSE m0
      m2 == IF op.called \in {"indirect", "declaration"} THEN TRUE ELSE m1
      m3 == AugmentArgs(op, 1, m2)
  IN IF EndsInUnreachable(op) THEN FALSE ELSE m3

InitAugment ==
  /\ BuildersIdle
  /\ diff = Idle /\ lmap = Idle /\ tape = Idle /\ cfg = Idle /\ heap = Idle
  /\ \E called \in Callees, readnone, active, unreachable \in BOOLEAN, ret \in ReturnTypes,
        n \in 0..MaxParams :
       \E params \in [1..n -> AugParam] :
         LET op == [called |-> called, readnone |-> readnone, ret |-> ret,
                    active |-> active, params |-> params, unreachable |-> unreachable]
         IN /\ IsAugOp(op)
            /\ sig = [op |-> op, phase |-> "call", modifyPrimal |-> FALSE]

\* handleGradientCallInst asks whether the call needs an augmented forward
\* pass (line 2498)
DecideAugment ==
  /\ sig.phase = "call"
  /\ sig' = [sig EXCEPT !.modifyPrimal = shouldAugmentCallOf(sig.op), !.phase = "decided"]
  /\ UNCHANGED <<bvars, diff, lmap, tape, cfg, heap>>

NextAugment == DecideAugment
SpecAugment == InitAugment /\ [][NextAugment]_vars

\* C19: the answer is false whenever the block of the call ends in
\* unreachable; otherwise it is true exactly when the callee is unknown or
\* has no body, or is not readnone, or the result is a non-float
\* non-constant value, or a non-constant non-float argument is passed in a
\* position the callee marks neither readonly nor readnone
C19_AugmentExactly ==
  sig.phase = "decided" =>
    LET op == sig.op IN
    IF op.unreachable THEN ~sig.modifyPrimal
    ELSE sig.modifyPrimal <=>
           \/ op.called \in {"indirect", "declaration"}
           \/ ~op.readnone
           \/ (op.ret # "fp" /\ op.active)
           \/ \E i \in DOMAIN op.params :
                /\ ~op.params[i].const /\ op.params[i].ty # "fp"
                /\ op.params[i].attr = "none"

C19_Witness ==
  /\ sig.phase = "decided" /\ sig.modifyPrimal /\ ~sig.op.unreachable
  /\ sig.op.called = "defined" /\ sig.op.readnone /\ sig.op.ret = "fp"
  /\ \E i, k \in DOMAIN sig.op.params :
       /\ sig.op.params[i].const /\ sig.op.params[i].ty = "ptr" /\ sig.op.params[i].attr = "none"
       /\ ~sig.op.params[k].const /\ sig.op.params[k].ty = "ptr"
       /\ sig.op.params[k].attr = "none"

(***************************************************************************)
(* is_value_needed_in_reverse on the use graph of one value of             *)
(* floating-point type: node 1 is the value, the other nodes are           *)
(* instructions, each naming the earlier nodes it has as operands.         *)
(***************************************************************************)
MaxNodes == 3

UseKinds == {"fadd", "fsub", "fmul", "cmp", "cast", "br", "call", "store", "ret"}

\* constant: isConstantInstruction of the instruction; plain: a call that
\* is in originalToNewFn and was not replaced by an extractvalue
UseNode == [kind : UseKinds, constant : BOOLEAN, plain : BOOLEAN,
            ops : SUBSET (1..MaxNodes)]

TheValue == [kind |-> "value", constant |-> FALSE, plain |-> TRUE, ops |-> {}]

\* an instruction that can follow the nodes of G: its operands are earlier
\* nodes that have a result
IsNextNode(G, N) ==
  /\ N.kind # "call" => N.plain
  /\ N.ops # {} /\ N.ops \subseteq DOMAIN G
  /\ \A v \in N.ops : G[v].kind \notin {"br", "store", "ret"}

\* inst->users()
users(G, v) == {u \in DOMAIN G : v \in G[u].ops}

\* line 452
IsFAddOrFSub_AddOnly(kind) == kind = "fadd"
IsFAddOrFSub(kind) == kind \in {"fadd", "fsub"}

\* lines 362-495; on an acyclic use graph the map seen, passed by value,
\* holds only the values on the current path and never answers
RECURSIVE is_value_needed_in_reverse(_, _, _)
RECURSIVE NeededFrom(_, _, _, _)

\* the loop over the users of inst, from user number u on
NeededFrom(G, inst, topLevel, u) ==
  IF u > Len(G) THEN FALSE
  ELSE IF u \notin users(G, inst) THEN NeededFrom(G, inst, topLevel, u + 1)
  ELSE LET user == G[u]
           next == NeededFrom(G, inst, topLevel, u + 1)
       IN IF ~topLevel /\ user.kind \in {"br", "call"} THEN TRUE
          ELSE IF ~topLevel /\ is_value_needed_in_reverse(G, u, topLevel) THEN TRUE
          ELSE IF user.kind = "cast" /\ ~is_value_needed_in_reverse(G, u, topLevel) THEN next
          ELSE IF IsFAddOrFSub(user.kind) THEN next
          ELSE IF user.kind = "store" THEN next
          ELSE IF user.kind \in {"cmp", "br", "cast", "ret"} THEN next
          ELSE IF user.kind = "call" /\ ~user.plain THEN TRUE
          ELSE IF user.constant THEN next
          ELSE TRUE

is_value_needed_in_reverse(G, inst, topLevel) == NeededFrom(G, inst, topLevel, 1)

InitNeeded ==
  /\ BuildersIdle
  /\ lmap = Idle /\ tape = Idle /\ sig = Idle /\ cfg = Idle /\ heap = Idle
  /\ \E topLevel \in BOOLEAN :
       diff = [G |-> <<TheValue>>, topLevel |-> topLevel, phase |-> "query",
               needed |-> FALSE]

\* the function being differentiated has one more instruction
NextInstruction ==
  /\ diff.phase = "query" /\ Len(diff.G) < MaxNodes
  /\ \E N \in UseNode :
       /\ IsNextNode(diff.G, N)
       /\ diff' = [diff EXCEPT !.G = Append(@, N)]
  /\ UNCHANGED <<bvars, lmap, tape, sig, cfg, heap>>

\* visitLoadInst (line 676) and the allocation handlers (2120, 2400) ask
\* whether the value must be kept for the reverse pass
AskNeeded ==
  /\ diff.phase = "query"
  /\ diff' = [diff EXCEPT !.needed = is_value_needed_in_reverse(diff.G, 1, diff.topLevel),
                          !.phase = "answered"]
  /\ UNCHANGED <<bvars, lmap, tape, sig, cfg, heap>>

NextNeeded == NextInstruction \/ AskNeeded
SpecNeeded == InitNeeded /\ [][NextNeeded]_vars

OnlyFAddFSubUsers(G, v) ==
  users(G, v) # {} /\ \A u \in users(G, v) : G[u].kind \in {"fadd", "fsub"}

\* C20: the answer is false for a value all of whose users are fadd/fsub,
\* in combined and in split mode alike, whatever the results of those
\* instructions are used for
C20_FAddFSubNeverNeeded ==
  (diff.phase = "answered" /\ OnlyFAddFSubUsers(diff.G, 1)) => ~diff.needed

\* the values that are needed in split mode: a user is a branch or a call,
\* or a non-constant instruction that needs its operand, or is itself needed
RECURSIVE NeededSplit(_, _)
NeededSplit(G, S) ==
  LET T == S \cup {v \in DOMAIN G :
                     \E u \in users(G, v) :
                       \/ G[u].kind \in {"br", "call"}
                       \/ u \in S
                       \/ G[u].kind = "fmul" /\ ~G[u].constant}
  IN IF T = S THEN S ELSE NeededSplit(G, T)

\* C20 as amended: in combined mode the answer is false for a value all of
\* whose users are fadd/fsub, whatever their results are used for; in split
\* mode it is false for such a value exactly when none of those results is
\* itself needed in the reverse pass
C20_FAddFSubPassesNeedOn ==
  (diff.phase = "answered" /\ OnlyFAddFSubUsers(diff.G, 1)) =>
     IF diff.topLevel THEN ~diff.needed
     ELSE diff.needed <=> \E u \in users(diff.G, 1) : u \in NeededSplit(diff.G, {})

C20_Witness ==
  /\ diff.phase = "answered" /\ ~diff.topLevel /\ diff.needed
  /\ OnlyFAddFSubUsers(diff.G, 1)
  /\ \E u \in users(diff.G, 1), w \in DOMAIN diff.G :
       /\ diff.G[u].kind = "fsub" /\ diff.G[u].constant
       /\ w \in users(diff.G, u) /\ diff.G[w].kind = "fmul" /\ ~diff.G[w].constant

(***************************************************************************)
(* is_value_needed_in_reverse as the machine that executes it: the call    *)
(* stack of the recursion, each frame holding its own copy of the map seen *)
(* (the parameter is passed by value).  The use graph may have cycles: a   *)
(* phi names instructions that come after it.  Node 1 is the value asked   *)
(* about, an argument or a phi whose first incoming value is a constant.   *)
(***************************************************************************)
MaxPath == 2   \* instructions of the function whose value is asked about

PathKinds == {"phi", "load", "fadd", "fmul", "call"}

\* ptr: the result is not floating point and may be a pointer (line 396).
\* "fadd" stands for the users that never need their operand (450-481, the
\* constant instructions of 488, and a store, which has no users), "fmul"
\* for an active instruction that needs it
PathNode == [kind : PathKinds, ptr : BOOLEAN, ops : SUBSET (1..MaxPath)]

\* an instruction has one or two operands that are values of the function
IsPathNode(G, N) ==
  /\ N.ops # {} /\ N.ops \subseteq DOMAIN G /\ Cardinality(N.ops) <= 2
  /\ N.ptr => N.kind = "phi"

\* line 364: seen.find(inst) != seen.end()
SeenFind_Never(seen, v) == FALSE
SeenFind(seen, v) == v \in DOMAIN seen

\* lines 363-367: the frame of a call whose value is not in seen
NeededFrame(seen, v) ==
  [inst |-> v, seen |-> [w \in DOMAIN seen \cup {v} |-> IF w = v THEN FALSE ELSE seen[w]],
   u |-> 1, pc |-> "split", z |-> 1]

\* the use lists of the first n values of G: for each value its users, in
\* the order in which inst->users() walks them
RECURSIVE UseLists(_, _)
UseLists(G, n) ==
  IF n = 0 THEN {<<>>}
  ELSE {Append(ul, o) : ul \in UseLists(G, n - 1), o \in Orderings(users(G, n))}

\* one point of the body of the frame f, to which the last recursive call
\* answered ans ("none": no call has been made at this point yet); f.u is
\* the place of the loop at 369 in the use list of f.inst and f.z that of
\* the loop at 398.
\* The result is the next point of the frame, a recursive call, or a return.
NeededStep(G, uses, topLevel, f, ans) ==
  LET goto(u, pc, z) == [t |-> "goto", f |-> [f EXCEPT !.u = u, !.pc = pc, !.z = z]]
      call(v) == [t |-> "call", v |-> v]
      ret(b) == [t |-> "return", b |-> b]
      next == goto(f.u + 1, "split", 1)
      ulist == uses[f.inst]
  IN IF f.u > Len(ulist) THEN ret(FALSE)                               \* 496
     ELSE IF ulist[f.u] = f.inst THEN next                             \* 370-371
     ELSE LET use == ulist[f.u]
          IN CASE f.pc = "split" ->                                    \* 377-389
                 IF topLevel THEN goto(f.u, "pointer", 1)
                 ELSE IF G[use].kind = "call" THEN ret(TRUE)
                 ELSE IF ans = "none" THEN call(use)
                 ELSE IF ans = "true" THEN ret(TRUE)
                 ELSE goto(f.u, "pointer", 1)
            [] f.pc = "pointer" ->                                     \* 396-442
                 IF ~G[f.inst].ptr \/ f.z > Len(ulist) THEN goto(f.u, "requery", 1)
                 ELSE IF G[ulist[f.z]].kind \in {"load", "phi"}
                      THEN IF ans = "none" THEN call(ulist[f.z])
                           ELSE IF ans = "true" THEN ret(TRUE)
                           ELSE goto(f.u, "pointer", f.z + 1)
                 ELSE IF G[ulist[f.z]].kind = "call" THEN ret(TRUE)
                 ELSE goto(f.u, "pointer", f.z + 1)
            [] f.pc = "requery" ->                                     \* 444-448
                 IF G[use].kind \in {"load", "phi"}
                 THEN IF ans = "none" THEN call(use)
                      ELSE IF ans = "false" THEN next
                      ELSE goto(f.u, "rest", 1)
                 ELSE goto(f.u, "rest", 1)
            [] f.pc = "rest" ->                                        \* 450-494
                 IF G[use].kind \in {"fadd", "phi"} THEN next
                 ELSE ret(TRUE)

\* the body of the frame f from its current point up to its next recursive
\* call or its return
RECURSIVE RunBody(_, _, _, _, _)
RunBody(G, uses, topLevel, f, ans) ==
  LET s == NeededStep(G, uses, topLevel, f, ans)
  IN IF s.t = "goto" THEN RunBody(G, uses, topLevel, s.f, "none")
     ELSE [t |-> s.t, f |-> f, v |-> IF s.t = "call" THEN s.v ELSE 0,
           b |-> IF s.t = "return" THEN s.b ELSE FALSE]

\* the points of one frame, in the order in which the body passes them
PointsPerUser == 2 * MaxPath + 7
PointsPerFrame == (MaxPath + 1) * PointsPerUser + 1
Point(f, answered) ==
  LET a == IF answered THEN 1 ELSE 0
  IN (f.u - 1) * PointsPerUser +
     CASE f.pc = "split" -> a
       [] f.pc = "pointer" -> 2 * f.z + a
       [] f.pc = "requery" -> 2 * MaxPath + 4 + a
       [] f.pc = "rest" -> 2 * MaxPath + 6

RECURSIVE Power(_, _)
Power(b, n) == IF n = 0 THEN 1 ELSE b * Power(b, n - 1)

\* what is left to do: the frames below the top one wait for an answer
WorkLeft(d) ==
  IF Len(d.stack) > MaxPath THEN 0
  ELSE LET n == Len(d.stack)
           left(i) == (PointsPerFrame - Point(d.stack[i], i < n \/ d.ans # "none"))
                        * Power(PointsPerFrame + 1, MaxPath - i)
           sum[i \in 0..n] == IF i = 0 THEN 0 ELSE sum[i - 1] + left(i)
       IN sum[n]

\* the values of the frames are the current path: pairwise distinct, each
\* frame's seen holds the values of the frames up to it, all mapped to false
IsPath(d) ==
  /\ \A i, j \in DOMAIN d.stack : d.stack[i].inst = d.stack[j].inst => i = j
  /\ \A i \in DOMAIN d.stack :
       /\ DOMAIN d.stack[i].seen = {d.stack[j].inst : j \in 1..i}
       /\ \A w \in DOMAIN d.stack[i].seen : ~d.stack[i].seen[w]

\* one call or return of the recursion; m is the stack and the last answer
MachineNext(G, uses, topLevel, m) ==
  LET s == RunBody(G, uses, topLevel, m.stack[Len(m.stack)], m.ans)
      below == SubSeq(m.stack, 1, Len(m.stack) - 1)
  IN IF s.t = "return"                       \* return seen[inst] = true, return false
     THEN [m EXCEPT !.stack = below, !.ans = IF s.b THEN "true" ELSE "false"]
     ELSE IF SeenFind(s.f.seen, s.v)         \* line 364: return seen[inst]
     THEN [m EXCEPT !.stack = below \o <<s.f>>, !.hit = TRUE,
                    !.ans = IF s.f.seen[s.v] THEN "true" ELSE "false"]
     ELSE [m EXCEPT !.stack = below \o <<s.f, NeededFrame(s.f.seen, s.v)>>,
                    !.ans = "none"]

\* the step from m to n leaves strictly less work and keeps the path, and a
\* query for a value on the path is answered false without a new frame
StepEnds(G, uses, topLevel, m, n) ==
  LET s == RunBody(G, uses, topLevel, m.stack[Len(m.stack)], m.ans)
  IN /\ IsPath(n) /\ WorkLeft(n) < WorkLeft(m)
     /\ (s.t = "call" /\ s.v \in {m.stack[i].inst : i \in DOMAIN m.stack})
          => (Len(n.stack) = Len(m.stack) /\ n.ans = "false")

\* the whole recursion, stopped at the first step that does not end
RECURSIVE RunQuery(_, _, _, _)
RunQuery(G, uses, topLevel, m) ==
  IF m.stack = <<>> THEN m
  ELSE LET n == MachineNext(G, uses, topLevel, m)
       IN IF StepEnds(G, uses, topLevel, m, n) THEN RunQuery(G, uses, topLevel, n)
          ELSE [n EXCEPT !.ends = FALSE]

InitSeen ==
  /\ BuildersIdle
  /\ lmap = Idle /\ tape = Idle /\ sig = Idle /\ cfg = Idle /\ heap = Idle
  /\ \E topLevel, ptr \in BOOLEAN, kind \in {"value", "phi"} :
       diff = [G |-> <<[kind |-> kind, ptr |-> ptr, ops |-> {}]>>,
               uses |-> <<>>, topLevel |-> topLevel, phase |-> "function",
               run |-> [stack |-> <<>>, ans |-> "none", hit |-> FALSE, ends |-> TRUE]]

\* the function has one more instruction
NextUse ==
  /\ diff.phase = "function" /\ Len(diff.G) < MaxPath
  /\ \E N \in PathNode :
       /\ IsPathNode(diff.G, N)
       /\ diff' = [diff EXCEPT !.G = Append(@, N)]
  /\ UNCHANGED <<bvars, lmap, tape, sig, cfg, heap>>

\* a phi has an incoming value defined at or after the phi (a loop)
LoopIncoming ==
  /\ diff.phase = "function"
  /\ \E p \in DOMAIN diff.G, v \in DOMAIN diff.G :
       /\ diff.G[p].kind = "phi" /\ v >= p /\ v \notin diff.G[p].ops
       /\ Cardinality(diff.G[p].ops) < 2
       /\ diff' = [diff EXCEPT !.G[p].ops = @ \cup {v}]
  /\ UNCHANGED <<bvars, lmap, tape, sig, cfg, heap>>

\* is_value_needed_in_reverse(TR, gutils, inst, topLevel) with seen = {},
\* on the use lists the function has when it is asked
AskValue ==
  /\ diff.phase = "function"
  /\ \E uses \in UseLists(diff.G, Len(diff.G)) :
       diff' = [diff EXCEPT
         !.phase = "answered",
         !.uses = uses,
         !.run = RunQuery(diff.G, uses, diff.topLevel,
                          [@ EXCEPT !.stack = <<NeededFrame(<<>>, 1)>>])]
  /\ UNCHANGED <<bvars, lmap, tape, sig, cfg, heap>>

NextSeen == NextUse \/ LoopIncoming \/ AskValue
SpecSeen == InitSeen /\ [][NextSeen]_vars

\* C21: is_value_needed_in_reverse terminates on every finite use graph,
\* cycles through phi nodes included: every call and return of the recursion
\* leaves strictly less work, the values on the recursion path stay pairwise
\* distinct, and a query for a value that is on the path is answered false
\* from seen without a new frame
C21_TerminatesOnCycles ==
  diff.phase = "answered" => (diff.run.ends /\ diff.run.stack = <<>>)

\* a finished query on a loop: the phi was asked about again while it was on
\* the path, and the answer came from seen
C21_Witness ==
  /\ diff.phase = "answered" /\ "run" \in DOMAIN diff /\ diff.run.hit
  /\ diff.run.ends /\ diff.run.ans = "true"
  /\ \E p, v \in DOMAIN diff.G :
       /\ diff.G[p].kind = "phi" /\ v > p /\ v \in diff.G[p].ops /\ p \in diff.G[v].ops

(***************************************************************************)
(* createInvertedTerminator on one block BB that starts with an active     *)
(* floating-point phi, and the executions of the reverse block it builds.  *)
(* The predecessors of BB are 1..n; when BB is a loop header, predecessor  *)
(* 1 is the preheader and the others are the latches of the loop.          *)
(***************************************************************************)
MaxPreds == 3
MaxTrips == 2

Preheader == 1

\* lines 1997-2001: what a placeholder of a loop header is replaced with
LoopFlag(pred) == IF pred = Preheader THEN "phi" ELSE "nphi"

\* gutils->branchToCorrespondingTarget(BB, phibuilder, phiTargetToPreds,
\* &replacePHIs): each placeholder becomes the test "the forward pass came
\* from this predecessor"
branchToCorrespondingTarget(replacePHIs) == [p \in DOMAIN replacePHIs |-> "from"]

\* lines 1942-1974: the placeholders created for the phi, one for each
\* predecessor whose incoming value is not constant (none for a phi with a
\* single incoming value)
CreateReplacePHIs(n, active) ==
  IF n = 1 THEN <<>>
  ELSE [p \in {q \in 1..n : active[q]} |-> "placeholder"]

\* lines 1981-2030
ResolveReplacePHIs(header, replacePHIs) ==
  IF header THEN [p \in DOMAIN replacePHIs |-> LoopFlag(p)]
  ELSE branchToCorrespondingTarget(replacePHIs)

InitPhi ==
  /\ BuildersIdle
  /\ diff = Idle /\ lmap = Idle /\ tape = Idle /\ sig = Idle /\ heap = Idle
  /\ \E n \in 1..MaxPreds, header \in BOOLEAN :
       /\ header => n >= 2
       /\ \E active \in [1..n -> BOOLEAN], first \in 1..n :
            \* first: the latch whose target is targetToPreds.begin()->first,
            \* the map being ordered by the addresses of the blocks
            /\ first = Preheader <=> ~header
            /\ cfg = [n |-> n, header |-> header, active |-> active, first |-> first,
                      phase |-> "build", replacePHIs |-> <<>>, zeroed |-> FALSE,
                      path |-> <<>>, left |-> 0,
                      last |-> [entered |-> 0, av |-> 0, flags |-> {}, added |-> {},
                                target |-> 0]]

\* createInvertedTerminator(TR, gutils, BB, ...) for a block with predecessors
InvertTerminator ==
  /\ cfg.phase = "build"
  /\ cfg' = [cfg EXCEPT
       !.phase = "forward",
       !.zeroed = TRUE,                                   \* line 1932
       !.replacePHIs = ResolveReplacePHIs(cfg.header,
                          CreateReplacePHIs(cfg.n, cfg.active))]
  /\ UNCHANGED <<bvars, diff, lmap, tape, sig, heap>>

\* the forward pass enters BB from one of its predecessors: a loop header
\* first from the preheader and then from a latch
ForwardEnter ==
  /\ cfg.phase = "forward" /\ Len(cfg.path) <= MaxTrips
  /\ \E pred \in 1..cfg.n :
       /\ cfg.header => (pred = Preheader <=> cfg.path = <<>>)
       /\ cfg' = [cfg EXCEPT !.path = Append(@, pred), !.left = @ + 1]
  /\ UNCHANGED <<bvars, diff, lmap, tape, sig, heap>>

\* the forward pass is over
StartReverse ==
  /\ cfg.phase = "forward" /\ cfg.path # <<>>
  /\ cfg' = [cfg EXCEPT !.phase = "reverse"]
  /\ UNCHANGED <<bvars, diff, lmap, tape, sig, heap>>

\* the value of a resolved flag in the execution of the reverse block that
\* undoes the entry from predecessor entered, the cached counter being av
FlagValue(flag, pred, entered, av) ==
  CASE flag = "phi" -> av = 0            \* line 1991
    [] flag = "nphi" -> av # 0           \* line 1992
    [] flag = "from" -> pred = entered
    [] OTHER -> FALSE

\* one execution of the reverse block of BB, for the latest entry that has
\* not been undone: the selects of 1957, the branch of 2009 or 2029
ReverseExecute ==
  /\ cfg.phase = "reverse" /\ cfg.left > 0
  /\ LET entered == cfg.path[cfg.left]
         av == cfg.left - 1
         flags == {p \in DOMAIN cfg.replacePHIs :
                     FlagValue(cfg.replacePHIs[p], p, entered, av)}
     IN cfg' = [cfg EXCEPT
          !.left = @ - 1,
          !.last = [entered |-> entered, av |-> av, flags |-> flags,
                    added |-> IF cfg.n = 1 THEN {p \in {1} : cfg.active[p]}   \* 1948
                              ELSE flags,                                     \* 1957-1959
                    target |-> IF cfg.header
                               THEN IF av = 0 THEN Preheader ELSE cfg.first  \* 2009
                               ELSE entered]]                                \* 2029
  /\ UNCHANGED <<bvars, diff, lmap, tape, sig, heap>>

NextPhi == InvertTerminator \/ ForwardEnter \/ StartReverse \/ ReverseExecute
SpecPhi == InitPhi /\ [][NextPhi]_vars

Executed == cfg.phase = "reverse" /\ cfg.last.entered # 0

\* C22: in each execution of the reverse block of a phi with more than one
\* incoming value no flag is true but that of the predecessor through which
\* the forward pass entered, the differential of the phi is added to the
\* incoming value of that predecessor and to no other, and the differential
\* of the phi is zeroed
C22_OneFlagTrue ==
  (Executed /\ cfg.n > 1) =>
     /\ cfg.last.flags = {p \in {cfg.last.entered} : cfg.active[p]}
     /\ cfg.last.added = cfg.last.flags
     /\ cfg.zeroed

\* the same for every block that is not the header of a loop with more than
\* one backedge
C22_OneFlagTrueOneBackedge ==
  (Executed /\ cfg.n > 1 /\ (cfg.header => cfg.n = 2)) =>
     /\ cfg.last.flags = {p \in {cfg.last.entered} : cfg.active[p]}
     /\ cfg.last.added = cfg.last.flags
     /\ cfg.zeroed

\* at a loop header the flag of the preheader is counter == 0 and the flag of
\* every other predecessor its negation
C22_HeaderFlags ==
  (cfg.phase # "build" /\ cfg.header) =>
     \A p \in DOMAIN cfg.replacePHIs :
        cfg.replacePHIs[p] = IF p = Preheader THEN "phi" ELSE "nphi"

\* C23: the reverse block of a loop header branches to the reverse block of
\* the preheader exactly when the cached counter is 0 and otherwise to that
\* of the latch through which the forward pass re-entered the header, and
\* no placeholder flag is left after the inversion
C23_HeaderBranch ==
  /\ (Executed /\ cfg.header) =>
        cfg.last.target = IF cfg.last.av = 0 THEN Preheader ELSE cfg.last.entered
  /\ (cfg.phase # "build" /\ cfg.header) =>
        \A p \in DOMAIN cfg.replacePHIs : cfg.replacePHIs[p] # "placeholder"

C23_HeaderBranchOneBackedge ==
  /\ (Executed /\ cfg.header /\ cfg.n = 2) =>
        cfg.last.target = IF cfg.last.av = 0 THEN Preheader ELSE cfg.last.entered
  /\ cfg.phase # "build" =>
        \A p \in DOMAIN cfg.replacePHIs : cfg.replacePHIs[p] # "placeholder"

(***************************************************************************)
(* A call of printf, puts or a function of the lgamma family in the two    *)
(* call handlers, and one run of the code they leave behind: the forward   *)
(* pass followed by the reverse pass.                                      *)
(***************************************************************************)
LGammaNames == {"lgamma", "lgammaf", "lgammal", "lgamma_r", "lgammaf_r", "lgammal_r",
                "__lgamma_r_finite", "__lgammaf_r_finite", "__lgammal_r_finite"}
PassThroughNames == {"printf", "puts"} \cup LGammaNames

\* the call op: the name of the callee and the number of its arguments
PassCall(name, nargs) == [inst |-> "call", called |-> name, nargs |-> nargs, args |-> "own"]

\* handleAugmentedCallInst, lines 2107-2117: the code the handler leaves in
\* the forward pass and the tape slots it assigns
AugmentedPassThrough(op) == [forward |-> <<op>>, slots |-> {}]

\* handleGradientCallInst, lines 2343-2353 and 2478-2486: what the handler
\* emits into the reverse block
GradientPassThrough_Nothing(op) == <<>>
GradientPassThrough(op) ==
  IF op.called \in {"printf", "puts"}
  THEN <<[op EXCEPT !.args = "lookupM"]>>      \* Builder2.CreateCall(called, args)
  ELSE <<>>

InitPass ==
  /\ BuildersIdle
  /\ diff = Idle /\ lmap = Idle /\ tape = Idle /\ sig = Idle /\ cfg = Idle
  /\ \E name \in PassThroughNames, nargs \in 1..2, topLevel \in BOOLEAN :
       heap = [op |-> PassCall(name, nargs), topLevel |-> topLevel, phase |-> "primal",
               forward |-> <<PassCall(name, nargs)>>, slots |-> {}, reverse |-> <<>>,
               executed |-> 0]

\* split mode: CreateAugmentedPrimal visits the call
HandleAugmentedCall ==
  /\ heap.phase = "primal" /\ ~heap.topLevel
  /\ heap' = [heap EXCEPT !.phase = "augmented",
                          !.forward = AugmentedPassThrough(heap.op).forward,
                          !.slots = AugmentedPassThrough(heap.op).slots]
  /\ UNCHANGED <<bvars, diff, lmap, tape, sig, cfg>>

\* CreatePrimalAndGradient visits the call
HandleGradientCall ==
  /\ heap.phase = IF heap.topLevel THEN "primal" ELSE "augmented"
  /\ heap' = [heap EXCEPT !.phase = "gradient",
                          !.reverse = GradientPassThrough(heap.op)]
  /\ UNCHANGED <<bvars, diff, lmap, tape, sig, cfg>>

CallsIn(code) == Cardinality({i \in DOMAIN code : code[i].inst = "call"})

\* the forward pass runs
RunForward ==
  /\ heap.phase = "gradient"
  /\ heap' = [heap EXCEPT !.phase = "forward run",
                          !.executed = @ + CallsIn(heap.forward)]
  /\ UNCHANGED <<bvars, diff, lmap, tape, sig, cfg>>

\* the reverse pass runs
RunReverse ==
  /\ heap.phase = "forward run"
  /\ heap' = [heap EXCEPT !.phase = "reverse run",
                          !.executed = @ + CallsIn(heap.reverse)]
  /\ UNCHANGED <<bvars, diff, lmap, tape, sig, cfg>>

NextPass == HandleAugmentedCall \/ HandleGradientCall \/ RunForward \/ RunReverse
SpecPass == InitPass /\ [][NextPass]_vars

\* C24 as stated: the forward pass keeps the call and assigns no tape slot,
\* the reverse pass emits nothing, the call executes once
C24_ExecutesOnce ==
  heap.phase = "reverse run" =>
     /\ heap.forward = <<heap.op>> /\ heap.slots = {}
     /\ heap.reverse = <<>> /\ heap.executed = 1

\* C24 as amended: the forward pass keeps the call and assigns no tape
\* slot; for the lgamma family the reverse pass emits nothing and the call
\* executes once; for printf and puts the reverse pass emits a copy of the
\* call on looked-up arguments, so the call executes twice
C24_PrintedAgainInReverse ==
  heap.phase = "reverse run" =>
     /\ heap.forward = <<heap.op>> /\ heap.slots = {}
     /\ heap.op.called \in LGammaNames =>
          (heap.reverse = <<>> /\ heap.executed = 1)
     /\ heap.op.called \in {"printf", "puts"} =>
          /\ heap.reverse = <<[heap.op EXCEPT !.args = "lookupM"]>>
          /\ heap.executed = 2

C24_Witness ==
  /\ heap.phase = "reverse run" /\ "op" \in DOMAIN heap /\ heap.op.called = "puts"
  /\ ~heap.topLevel /\ heap.executed = 2 /\ heap.slots = {}

(***************************************************************************)
(* What is read from the entries of cachedfunctions.                       *)
(***************************************************************************)
KeyOfRequest(req) == AugKey(req[1], req[2], req[3], req[4], req[5], req[6])

\* the values read from an entry while its key was not under construction
\* are the values the entry holds: what the driver was handed, and the
\* callee of every call instruction of a live function
ReadsAreFinal ==
  /\ \A i \in AugResults :
        /\ KeyOfRequest(results[i].req) \in FinishedAug
        /\ results[i].fn = augcache[KeyOfRequest(results[i].req)].fn
        /\ results[i].tapeType = augcache[KeyOfRequest(results[i].req)].tapeType
  /\ \A i \in DOMAIN funcs : \A c \in CallsOf(i) :
        (funcs[i].alive /\ funcs[c].key \in FinishedAug) =>
           /\ c = augcache[funcs[c].key].fn
           /\ funcs[c].alive /\ funcs[c].name # "placeholder"
  \* the gradient handler reads fn and tapeType (2840-2866, 2973) when no
  \* augmented primal is under construction
  /\ (stack # <<>> /\ stack[Len(stack)].kind = "grad") =>
        \A j \in DOMAIN stack : stack[j].kind = "grad"

\* C25: code outside the construction of a key reads the final fn and
\* tapeType of its AugmentedReturn: an entry whose construction is over
\* never changes again, and what was read from it is what it holds
C25_NoPartialState ==
  [][/\ \A k \in FinishedAug :
          /\ k \in DOMAIN augcache'
          /\ augcache'[k].fn = augcache[k].fn
          /\ augcache'[k].tapeType = augcache[k].tapeType
     /\ ReadsAreFinal']_vars

\* a self-recursive function, whose placeholder was called from its own
\* body, was asked for again after its construction and answered from the
\* cache with the boxed tape type
C25_Witness ==
  \E i, j \in AugResults :
    /\ i < j /\ results[i].req = results[j].req /\ stack = <<>>
    /\ results[j].fn \in CallsOf(results[j].fn)
    /\ results[j].tapeType # NoType
    /\ \E p \in ObjectsOf(KeyOfRequest(results[j].req)) : funcs[p].name = "placeholder"

(***************************************************************************)
(* The tape keys of one call instruction op of a function that is          *)
(* differentiated in split mode: the slots handleAugmentedCallInst assigns *)
(* and the slots handleGradientCallInst asks for.  Both builders walk a    *)
(* block back to front, so the users of op in its block are transformed    *)
(* before op is.                                                           *)
(***************************************************************************)
InitUses ==
  /\ BuildersIdle
  /\ diff = Idle /\ lmap = Idle /\ sig = Idle /\ cfg = Idle /\ heap = Idle
  /\ \E class \in CallClasses, called, accessesMemory, inverted, returnUsed \in BOOLEAN,
        original \in SUBSET UserKinds :
       /\ inverted => class = "augmented"
       \* line 2058: a call through a function pointer is augmented unless
       \* it is a constant instruction
       /\ ~called => class # "plain"
       /\ tape = [op |-> [class |-> class, called |-> called,
                          accessesMemory |-> accessesMemory,
                          inverted |-> inverted],
                  returnUsed |-> returnUsed, original |-> original,
                  phase |-> "primal", uses |-> original, tapeIndices |-> {},
                  requested |-> {}]

\* CreateAugmentedPrimal handles the returns first
AugmentedReturnsFirst ==
  /\ tape.phase = "primal"
  /\ tape' = [tape EXCEPT !.phase = "augmented walk",
                          !.uses = AugmentedReturns(@, tape.returnUsed)]
  /\ UNCHANGED <<bvars, diff, lmap, sig, cfg, heap>>

\* the walk reaches a call of free behind op
AugmentedFree ==
  /\ tape.phase = "augmented walk" /\ "free" \in tape.uses
  /\ tape' = [tape EXCEPT !.uses = EraseFree(@)]
  /\ UNCHANGED <<bvars, diff, lmap, sig, cfg, heap>>

\* the walk reaches op: handleAugmentedCallInst
AugmentedCall ==
  /\ tape.phase = "augmented walk" /\ "free" \notin tape.uses
  /\ tape' = [tape EXCEPT !.phase = "augmented",
                          !.tapeIndices = ForwardCallSlots(tape.op, tape.uses)]
  /\ UNCHANGED <<bvars, diff, lmap, sig, cfg, heap>>

\* CreatePrimalAndGradient in split mode clones the function anew and
\* handles the returns first
GradientReturnsFirst ==
  /\ tape.phase = "augmented"
  /\ tape' = [tape EXCEPT !.phase = "gradient walk",
                          !.uses = GradientReturns(tape.original)]
  /\ UNCHANGED <<bvars, diff, lmap, sig, cfg, heap>>

\* the walk reaches a call of free behind op (2427-2452); the null
\* dereference of 2436 is undefined: the build stops or goes on
GradientFree ==
  /\ tape.phase = "gradient walk" /\ "free" \in tape.uses
  /\ \/ tape' = [tape EXCEPT !.uses = EraseFree(@)]
     \/ /\ FreedByNullCallee(tape.op)
        /\ tape' = [tape EXCEPT !.phase = "crashed"]
  /\ UNCHANGED <<bvars, diff, lmap, sig, cfg, heap>>

\* lines 520-548, 3009, 3017-3031, 3046-3065: a call through a function
\* pointer whose result is an active pointer is given a gradient type with
\* a parameter for the result (subdiffereturn) and no argument for it (the
\* cotangent is pushed for a floating-point result only), so the build
\* stops at "calling with wrong number of arguments"
BadGradientCall(op) == ~op.called /\ op.class = "augmented" /\ op.inverted

\* the walk reaches op: handleGradientCallInst; the lookups of 2924-2957
\* come before the argument check of 3046-3065
GradientCall ==
  /\ tape.phase = "gradient walk" /\ "free" \notin tape.uses
  /\ tape' = [tape EXCEPT !.phase = IF BadGradientCall(tape.op) THEN "badfn"
                                    ELSE "gradient",
                          !.requested = ReverseCallRequests(tape.op, tape.uses,
                                                            tape.original)]
  /\ UNCHANGED <<bvars, diff, lmap, sig, cfg, heap>>

\* the walk reaches a call of free in a later block (2427-2452), after op
\* has been handled (a build that stopped at op does not get here): op is
\* still the freed value unless it was replaced by
\* a read of its Self slot (2492, 2927), and the null dereference of 2436
\* is as in GradientFree
GradientFreeLater ==
  /\ tape.phase = "gradient" /\ "free later" \in tape.uses
  /\ \/ tape' = [tape EXCEPT !.uses = @ \ {"free later"}]
     \/ /\ FreedByNullCallee(tape.op) /\ "Self" \notin tape.requested
        /\ tape' = [tape EXCEPT !.phase = "crashed"]
  /\ UNCHANGED <<bvars, diff, lmap, sig, cfg, heap>>

NextUses == AugmentedReturnsFirst \/ AugmentedFree \/ AugmentedCall
            \/ GradientReturnsFirst \/ GradientFree \/ GradientCall
            \/ GradientFreeLater
SpecUses == InitUses /\ [][NextUses]_vars

\* C26: every tape key the split-mode gradient asks for has a slot assigned
\* by the augmented forward pass, whatever the users of the call are
C26_LookupNeverMisses ==
  tape.phase \in {"gradient", "badfn"} =>
     tape.requested \subseteq tape.tapeIndices

\* the same when no user of the call is erased before the call is visited
C26_NoMissWithoutErasedUser ==
  (tape.phase \in {"gradient", "badfn"} /\ "free" \notin tape.original) =>
     tape.requested \subseteq tape.tapeIndices

(***************************************************************************)
(* The tape of one differentiated call between the call site in the        *)
(* caller's gradient and the entry of the callee's gradient, and one run   *)
(* of the code the two emit.  The augmented callee returns its tape boxed  *)
(* (an i8* to a heap copy of the struct, tapeType set) when it is          *)
(* recursive or was built with forceAnonymousTape, and inline otherwise.   *)
(***************************************************************************)
TapeShapes == {<<>>, <<FloatTy>>, <<I8Ptr>>, <<FloatTy, I8Ptr>>, <<I8Ptr, I8Ptr>>}

\* lines 2973-2980: the caller unboxes when it has the AugmentedReturn of
\* the callee and its tapeType is not null
CallerUnboxes(fnandtapetype) ==
  fnandtapetype # NoKey /\ fnandtapetype.tapeType # NoType

\* lines 2974-2979 and 3426-3433: cast, load, free
UnboxCode == <<"cast", "load", "free">>

\* line 2979 (tape = truetape): the type of the tape handed to the gradient
PassedTape_Raw(unboxes, rawTy, tapeType) == rawTy
PassedTape(unboxes, rawTy, tapeType) == IF unboxes THEN tapeType ELSE rawTy

\* lines 3411, 3423: the callee unboxes when it has a tape argument that is
\* not a struct
CalleeUnboxes(additionalArg) ==
  additionalArg # NoType /\ ~isStructTy(additionalArg)

InitBox ==
  /\ BuildersIdle
  /\ diff = Idle /\ lmap = Idle /\ tape = Idle /\ cfg = Idle /\ heap = Idle
  /\ \E called, boxed, topLevel, modifies \in BOOLEAN, shape \in TapeShapes :
       \* an indirect callee is differentiated with forceAnonymousTape; a
       \* call whose primal is not augmented has no tape
       /\ ~called => boxed
       /\ ~modifies => ~boxed /\ shape = <<>>
       /\ sig = [called |-> called, topLevel |-> topLevel, boxed |-> boxed,
                 modifyPrimal |-> modifies,
                 source |-> IF ~modifies THEN "none"
                            ELSE IF topLevel THEN "extract" ELSE "cache",
                 rawTy |-> IF boxed THEN I8Ptr ELSE StructTy(shape),
                 augmented |-> [tapeType |-> IF boxed THEN StructTy(shape) ELSE NoType],
                 phase |-> "call site", caller |-> <<>>, callee |-> <<>>,
                 additionalArg |-> NoType, pc |-> 0, loads |-> 0, frees |-> 0,
                 freedFirst |-> FALSE]

\* handleGradientCallInst, lines 2973-2990 and the argument of 3006-3014
CallerTape ==
  /\ sig.phase = "call site"
  /\ LET fnandtapetype == IF sig.modifyPrimal /\ sig.called     \* 2819, 2849
                           THEN sig.augmented ELSE NoKey
         unboxes == CallerUnboxes(fnandtapetype)
         rawTy == IF sig.modifyPrimal THEN sig.rawTy ELSE NoType  \* 2794, 2915, 2921
     IN sig' = [sig EXCEPT
          !.phase = "callee",
          !.caller = IF unboxes THEN UnboxCode ELSE <<>>,
          !.additionalArg = PassedTape(unboxes, rawTy,
                               IF unboxes THEN fnandtapetype.tapeType ELSE NoType)]
  /\ UNCHANGED <<bvars, diff, lmap, tape, cfg, heap>>

\* CreatePrimalAndGradient, lines 3417-3447
CalleeTape ==
  /\ sig.phase = "callee"
  /\ sig' = [sig EXCEPT
       !.phase = "run",
       !.callee = IF CalleeUnboxes(sig.additionalArg) THEN UnboxCode ELSE <<>>]
  /\ UNCHANGED <<bvars, diff, lmap, tape, cfg, heap>>

\* the next instruction of the emitted code runs: the caller's, then the
\* callee's
RunTapeCode ==
  /\ sig.phase = "run" /\ sig.pc < Len(sig.caller \o sig.callee)
  /\ LET inst == (sig.caller \o sig.callee)[sig.pc + 1]
     IN sig' = [sig EXCEPT
          !.pc = @ + 1,
          !.loads = IF inst = "load" THEN @ + 1 ELSE @,
          !.frees = IF inst = "free" THEN @ + 1 ELSE @,
          !.freedFirst = @ \/ (inst = "load" /\ sig.frees > 0)
                           \/ (inst = "free" /\ sig.loads = 0)]
  /\ UNCHANGED <<bvars, diff, lmap, tape, cfg, heap>>

NextBox == CallerTape \/ CalleeTape \/ RunTapeCode
SpecBox == InitBox /\ [][NextBox]_vars

BoxRunOver == sig.phase = "run" /\ sig.pc = Len(sig.caller \o sig.callee)

\* C27: a boxed tape is loaded and then freed exactly once per call: a
\* caller that sees a tapeType unboxes and passes the struct, the callee
\* unboxes only an i8*, never both, and an inline tape is never freed
C27_FreedExactlyOnce ==
  /\ sig.phase = "run" =>
        /\ (sig.caller # <<>>) <=>
              (sig.modifyPrimal /\ sig.called /\ sig.augmented.tapeType # NoType)
        /\ sig.caller # <<>> => sig.additionalArg = sig.augmented.tapeType
        /\ (sig.callee # <<>>) <=> (sig.additionalArg = I8Ptr)
        /\ ~(sig.caller # <<>> /\ sig.callee # <<>>)
        /\ ~sig.freedFirst
  /\ BoxRunOver =>
        /\ sig.frees = IF sig.boxed THEN 1 ELSE 0
        /\ sig.loads = sig.frees

\* a boxed tape of a direct callee was unboxed and freed by the caller alone
C27_Witness ==
  /\ "boxed" \in DOMAIN sig /\ BoxRunOver /\ sig.boxed /\ sig.called
  /\ sig.caller = UnboxCode /\ sig.callee = <<>> /\ sig.frees = 1
  /\ sig.additionalArg = StructTy(<<FloatTy, I8Ptr>>)

(***************************************************************************)
(* The AugmentedReturn a gradient request carries, for a top-level         *)
(* function h whose call sites call f, where f calls g once.  The call     *)
(* sites of h differ in how the result of f is used, so that they ask for  *)
(* augmented primals of f with different returnUsed.                       *)
(***************************************************************************)
MaxSites == 2   \* call sites of f in the top-level function

ResultUses == {"none", "ret", "other"}

\* the body of g: instruction 1 in the entry block is a constant call that
\* accesses memory, whose result has the user cuse; when g is recursive,
\* instruction 2 in a later block is a call of g whose result is returned
\* and has no other user
CalleeBodies == [cuse : ResultUses, recursive : BOOLEAN]

\* the tape struct of an augmented primal (lines 1678-1684)
TapeStruct(mallocs) == StructTy(mallocs)

\* lines 1561-1575, 2138, 2183: the call has a use in the clone when an
\* instruction uses it or when it is returned and the return is kept
subretusedClone(use, returnUsed) ==
  use = "other" \/ (use = "ret" /\ returnUsed)

\* lines 2189-2196
hasNonReturnUse(use) == use = "other"

\* CreateAugmentedPrimal for g (lines 1429-1433, 1607-1634, 2137-2143,
\* 2183-2226, 2280, 1678-1692, 1852): the constant call gets a Self slot
\* when its result has a use in the clone; the call of g asks for the key
\* that is being built, is answered by the reserved entry, whose tape is an
\* i8*, and makes g recursive, so that its tape is boxed
CalleeAugmentedPrimal(cache, key, body) ==
  IF AugCacheFind(cache, key) THEN cache
  ELSE LET cused == subretusedClone(body.cuse, key.returnUsed)
           map1 == IF cused THEN getIndex(EmptyMap, <<1, "Self">>) ELSE EmptyMap
           m1 == IF cused THEN addMalloc(<<>>, FloatTy, map1[<<1, "Self">>]) ELSE <<>>
           subkey == AugKey("g", {}, {}, TRUE,
                            subretusedClone("ret", key.returnUsed), TypeInfo0)
           recursive == body.recursive /\ subkey = key
           map2 == IF recursive THEN getIndex(map1, <<2, "Tape">>) ELSE map1
           m2 == IF recursive THEN addMalloc(m1, I8Ptr, map2[<<2, "Tape">>]) ELSE m1
       IN insert_or_assign(cache, key,
            [AugmentedReturn(key, IF recursive THEN TapeStruct(m2) ELSE NoType)
               EXCEPT !.tapeIndices = map2,
                      !.subaugmentations = IF recursive THEN 2 :> subkey ELSE EmptyMap]
              @@ [raw |-> IF recursive THEN I8Ptr ELSE TapeStruct(m2),
                  uncacheable_args_map |->
                     IF body.recursive THEN (1 :> {}) @@ (2 :> {}) ELSE 1 :> {}])

\* CreateAugmentedPrimal for f, one block: the call of g is instruction 1
\* and a constant call that accesses memory is instruction 2, which the
\* walk reaches first (lines 1607-1634, 2137-2143, 2183-2317, 1678-1692)
CallerAugmentedPrimal(cache, key, use, duse, body) ==
  IF AugCacheFind(cache, key) THEN cache
  ELSE LET dused == subretusedClone(duse, key.returnUsed)
           map0 == IF dused THEN getIndex(EmptyMap, <<2, "Self">>) ELSE EmptyMap
           m0 == IF dused THEN addMalloc(<<>>, FloatTy, map0[<<2, "Self">>]) ELSE <<>>
           subretused == subretusedClone(use, key.returnUsed)
           subkey == AugKey("g", {}, {}, TRUE, subretused, TypeInfo0)
           cache1 == CalleeAugmentedPrimal(cache, subkey, body)
           map1 == getIndex(map0, <<1, "Tape">>)
           m1 == addMalloc(m0, cache1[subkey].raw, map1[<<1, "Tape">>])
           self == subretused /\ hasNonReturnUse(use)
           map2 == IF self THEN getIndex(map1, <<1, "Self">>) ELSE map1
           m2 == IF self THEN addMalloc(m1, FloatTy, map2[<<1, "Self">>]) ELSE m1
       IN insert_or_assign(cache1, key,
            [AugmentedReturn(key, NoType) EXCEPT
               !.tapeIndices = map2,
               !.subaugmentations = insert_or_assign(EmptyMap, 1, subkey)]
              @@ [raw |-> TapeStruct(m2),
                  uncacheable_args_map |-> (1 :> {}) @@ (2 :> {})])

\* lines 2355-2374 after the returns were replaced (3479-3521)
augmentedsubretused(use, metaretused) ==
  use = "other" \/ (use = "ret" /\ metaretused)

\* lines 3382-3383, 3400
TakeLayout(augmenteddata) ==
  [tapeIndices |-> augmenteddata.tapeIndices,
   uncacheable_args_map |-> augmenteddata.uncacheable_args_map,
   subaugmentations |-> augmenteddata.subaugmentations]

InitLayout ==
  /\ BuildersIdle
  /\ diff = Idle /\ tape = Idle /\ sig = Idle /\ cfg = Idle /\ heap = Idle
  /\ \E n \in 1..MaxSites, use \in ResultUses, duse \in ResultUses,
        body \in CalleeBodies, metaretused \in BOOLEAN :
       \E sites \in [1..n -> ResultUses] :
         \* f has one block and so one return
         /\ ~(use = "ret" /\ duse = "ret")
         /\ lmap = [sites |-> sites, use |-> use, duse |-> duse, body |-> body,
                    metaretused |-> metaretused, at |-> n + 1,
                    augmented |-> EmptyMap, gradients |-> EmptyMap, hits |-> {}]

\* the driver asks for the gradient of h: the body walk starts at its end
TopGradient ==
  /\ lmap.at = Len(lmap.sites) + 1
  /\ lmap' = [lmap EXCEPT !.at = @ - 1]
  /\ UNCHANGED <<bvars, diff, tape, sig, cfg, heap>>

\* handleGradientCallInst at the next call site of h (top level): the
\* augmented primal of f (2842) and then its gradient (3006-3014), which
\* on a miss is built with the layout of the AugmentedReturn passed in and
\* on a hit is the one built before
GradientCallSite ==
  /\ lmap.at \in DOMAIN lmap.sites
  /\ LET use == lmap.sites[lmap.at]
         key == AugKey("f", {}, {}, TRUE,
                       augmentedsubretused(use, lmap.metaretused), TypeInfo0)
         cache == CallerAugmentedPrimal(lmap.augmented, key, lmap.use, lmap.duse,
                                        lmap.body)
         subdata == cache[key]
         gkey == GradKey("f", {}, {}, FALSE, TRUE, FALSE, FALSE, subdata.raw, TypeInfo0)
     IN IF GradCacheFind(lmap.gradients, gkey)
        THEN lmap' = [lmap EXCEPT !.at = @ - 1, !.augmented = cache,
                        !.hits = @ \cup {[gkey |-> gkey, passed |-> key]}]
        ELSE lmap' = [lmap EXCEPT !.at = @ - 1, !.augmented = cache,
                        !.gradients = insert_or_assign(@, gkey,
                                        [augmenteddata |-> key,
                                         layout |-> TakeLayout(subdata)])]
  /\ UNCHANGED <<bvars, diff, tape, sig, cfg, heap>>

NextLayout == TopGradient \/ GradientCallSite
SpecLayout == InitLayout /\ [][NextLayout]_vars

\* lines 2973-2975: the type as which the gradient that was built with the
\* layout built unboxes the tape of the callee at site s, and the type as
\* which the augmented primal behind the AugmentedReturn passed boxed it
\* (1736-1741)
UnboxedAs(built, s) == lmap.augmented[built.subaugmentations[s]].tapeType
BoxedAs(passed, s) == lmap.augmented[passed.subaugmentations[s]].tapeType

\* the slots a gradient reads through tapeIndices and the slots and tape
\* types of the callees it unboxes
SameSlots(built, passed) ==
  /\ built.tapeIndices = passed.tapeIndices
  /\ built.uncacheable_args_map = passed.uncacheable_args_map
  /\ DOMAIN built.subaugmentations = DOMAIN passed.subaugmentations
  /\ \A s \in DOMAIN built.subaugmentations :
       LET b == lmap.augmented[built.subaugmentations[s]]
           p == lmap.augmented[passed.subaugmentations[s]]
       IN /\ b.tapeIndices = p.tapeIndices /\ b.raw = p.raw
          /\ UnboxedAs(built, s) = BoxedAs(passed, s)

\* C28: a request answered from the gradient cache carries an
\* AugmentedReturn with the layout the cached gradient was built with: the
\* same tapeIndices and uncacheable maps, and sub-augmentations with the
\* same tapeIndices and tape types
C28_SameSlots ==
  \A h \in lmap.hits :
    SameSlots(lmap.gradients[h.gkey].layout, lmap.augmented[h.passed])

\* the part that holds: the tapeIndices and uncacheable maps of f itself
\* agree on a hit, and so does the type of every tape field of f
C28_OwnSlotsAgree ==
  \A h \in lmap.hits :
    LET built == lmap.gradients[h.gkey].layout
        passed == lmap.augmented[h.passed]
    IN /\ built.tapeIndices = passed.tapeIndices
       /\ built.uncacheable_args_map = passed.uncacheable_args_map
       /\ lmap.augmented[lmap.gradients[h.gkey].augmenteddata].raw = passed.raw

(***************************************************************************)
(* Driver-level requests for augmented primals with and without            *)
(* forceAnonymousTape, one after the other.                                *)
(***************************************************************************)
TopAugAgain == Len(results) < MaxTop /\ DriverAug({TRUE}, BOOLEAN)

InitForce == BuildInit({"augment"}, {"none"}, {FALSE})
NextForce == TopAugAgain \/ AugVisitCall \/ AugReturn
SpecForce == InitForce /\ [][NextForce]_vars

ForcedResults == {i \in AugResults : results[i].force}
BoxedResult(i) ==
  /\ funcs[results[i].fn].retTape = I8Ptr
  /\ isStructTy(results[i].tapeType)

\* C29: after any sequence of earlier builder calls, a call of
\* CreateAugmentedPrimal with forceAnonymousTape returns an AugmentedReturn
\* whose function carries the tape as an i8* and whose tapeType is set
C29_ForcedIsBoxed == \A i \in ForcedResults : BoxedResult(i)

\* a forced request whose key no earlier request asked for is boxed
C29_FirstForcedIsBoxed ==
  \A i \in ForcedResults :
    (\A j \in 1..(i - 1) : results[j].req # results[i].req
                           /\ results[i].req[1] \notin
                                {s.callee : s \in {prog.body[results[j].req[1]][n] :
                                                     n \in DOMAIN prog.body[results[j].req[1]]}})
      => BoxedResult(i)

(***************************************************************************)
(* The indices with which a call site reads the result struct of an        *)
(* augmented call, in handleAugmentedCallInst and in the top-level         *)
(* handleGradientCallInst, for one call whose callee is known (direct) or  *)
(* a function pointer (indirect).                                          *)
(***************************************************************************)
\* lines 2209-2211, 2813-2815: 0xDEADBEEF, as a signed 32-bit number
Unset == -559038737

RetTypes == {"float", "pointer", "void"}

\* the returnMapping CreateFromClone fills in for a function it clones
returnMapping(retTy, returnUsed, differentialReturn) ==
  LET ret == returnUsed /\ retTy # "void"
      shadow == differentialReturn /\ retTy = "pointer"
  IN [k \in {"Tape"} \cup {x \in {"Return"} : ret}
              \cup {x \in {"DifferentialReturn"} : shadow} |->
        CASE k = "Tape" -> 0
          [] k = "Return" -> 1
          [] k = "DifferentialReturn" -> IF ret THEN 2 ELSE 1]

\* lines 500-520: the fields of the struct an indirect augmented callee
\* returns
getDefaultFunctionTypeForAugmentation(retTy, returnUsed, differentialReturn) ==
  <<"i8*">> \o (IF retTy # "void" /\ returnUsed THEN <<retTy>> ELSE <<>>)
            \o (IF retTy # "void" /\ differentialReturn /\ retTy # "float"
                THEN <<retTy>> ELSE <<>>)

\* returns.find(k) with the index left as it was when k is missing
FindIndex(returns, k, idx) == IF k \in DOMAIN returns THEN returns[k] ELSE idx

\* lines 2209-2247: tapeIdx, returnIdx, differeturnIdx of the forward handler
AugmentedIndices(called, retTy, returns) ==
  IF called
  THEN [tape |-> FindIndex(returns, "Tape", Unset),
        ret |-> FindIndex(returns, "Return", Unset),
        shadow |-> FindIndex(returns, "DifferentialReturn", Unset)]
  ELSE [tape |-> 0,
        ret |-> IF retTy # "void" THEN 1 ELSE Unset,
        shadow |-> IF retTy # "void" THEN 2 ELSE Unset]

GradientIndices_AsAugmented(called, retTy, returns) ==
  AugmentedIndices(called, retTy, returns)

\* lines 2813-2868: tapeIdx, returnIdx, differetIdx of the reverse handler
GradientIndices(called, retTy, returns) ==
  IF called
  THEN [tape |-> FindIndex(returns, "Tape", Unset),
        ret |-> FindIndex(returns, "Return", Unset),
        shadow |-> FindIndex(returns, "DifferentialReturn", Unset)]
  ELSE [tape |-> 0,
        ret |-> IF retTy # "void" /\ retTy # "float" THEN 1 ELSE Unset,
        shadow |-> IF retTy # "void" /\ retTy # "float" THEN 2 ELSE Unset]

\* the fields of the struct the augmented call returns
ResultFields(called, retTy, returns) ==
  IF called THEN Cardinality(DOMAIN returns)
  ELSE Len(getDefaultFunctionTypeForAugmentation(retTy, TRUE, TRUE))

InitIdx ==
  /\ BuildersIdle
  /\ diff = Idle /\ lmap = Idle /\ tape = Idle /\ sig = Idle /\ cfg = Idle
  /\ \E called, active, returnUsed, replaceable \in BOOLEAN, retTy \in RetTypes,
        use \in ResultUses :
       \* a void result has no user; an inactive result has no shadow
       /\ retTy = "void" => use = "none"
       \* lines 2500, 2544: only a call to a function with a body is replaced
       /\ replaceable => called
       /\ heap = [called |-> called, retTy |-> retTy, use |-> use,
                  active |-> active, returnUsed |-> returnUsed,
                  replaceable |-> replaceable,
                  placeholder |-> active /\ retTy = "pointer",
                  handler |-> "none", fields |-> 0, extracts |-> {}]

\* handleAugmentedCallInst, lines 2183-2317
AugmentedExtracts ==
  /\ heap.handler = "none"
  /\ LET subretused == subretusedClone(heap.use, heap.returnUsed)        \* 2183
         subdifferentialreturn == heap.active                            \* 2187
         returns == returnMapping(heap.retTy, subretused, subdifferentialreturn)
         idx == AugmentedIndices(heap.called, heap.retTy, returns)
     IN heap' = [heap EXCEPT
          !.handler = "augmented",
          !.fields = ResultFields(heap.called, heap.retTy, returns),
          !.extracts =
             {[what |-> "tape", idx |-> idx.tape]}                       \* 2273
             \cup {[what |-> "shadow", idx |-> idx.shadow] : b \in
                     {x \in {TRUE} : heap.placeholder /\ subdifferentialreturn}}  \* 2282-2286
             \cup {[what |-> "return", idx |-> idx.ret] : b \in
                     {x \in {TRUE} : subretused}}]                       \* 2298-2299
  /\ UNCHANGED <<bvars, diff, lmap, tape, sig, cfg>>

\* lines 3021-3037, 3065: the argument list of the reverse call has another
\* length than the parameter list of the function type.  The type derived
\* for an indirect callee (getDefaultFunctionTypeForGradient, 540-545) has a
\* parameter for every non-void result that is differentiated; the call
\* site passes a cotangent only for a floating-point result.  A direct
\* callee is built for the call site and has its parameters.
WrongNumberOfArguments(called, retTy, differentialReturn) ==
  LET cotangent == IF differentialReturn /\ retTy = "float" THEN <<retTy>> ELSE <<>>
      retparam == IF retTy # "void" /\ differentialReturn THEN <<retTy>> ELSE <<>>
  IN ~called /\ Len(cotangent) # Len(retparam)

\* handleGradientCallInst at top level, lines 2355-2374, 2542-2790,
\* 2813-3012, 3021-3086, 3156-3160; the enclosing gradient keeps a returned
\* value in a store when its own return is used.  heap.replaceable: the
\* block of the call falls through to its reverse block, the walk over the
\* instructions behind the call ends at the call and no user of the result
\* is outside the original instructions (2544-2758); such a call is replaced
\* by the call of the joint forward and reverse function unless a pointer
\* result is used (2760-2774), and then there is no augmented call and
\* nothing is extracted from one.  The replaced call of an active pointer
\* result reads the result of the joint call from index 1 on (3010,
\* 3075-3086), which that result does not have, and the compiler stops.
\* At badfn (3046-3061) the compiler exits with the tape and shadow
\* extracts made, before the return extract.
GradientExtracts ==
  /\ heap.handler = "none"
  /\ LET subretused == heap.use = "other" \/ (heap.use = "ret" /\ heap.returnUsed)
         site == [topLevel |-> TRUE, replaceable |-> heap.replaceable,
                  called |-> IF heap.called THEN "direct" ELSE "indirect",
                  ret |-> IF heap.retTy = "pointer" THEN "ptr" ELSE heap.retTy,
                  active |-> heap.active, subretused |-> subretused]
         asu == augmentedsubretused(heap.use, heap.returnUsed)
         subdifferentialreturn == heap.active                            \* 2822
         returns == returnMapping(heap.retTy, asu, subdifferentialreturn)
         idx == GradientIndices(heap.called, heap.retTy, returns)
         subcheck == subdifferentialreturn /\ heap.retTy # "float" /\ heap.active
         badfn == WrongNumberOfArguments(heap.called, heap.retTy,
                                         subdifferentialreturn)          \* 3065
     IN IF replaceFunction(site)                                         \* 2817, 2993
        THEN heap' = [heap EXCEPT
               !.handler = IF subdretptr(site) THEN "gradient replaced, no shadow field"
                           ELSE "gradient replaced"]
        ELSE heap' = [heap EXCEPT
          !.handler = IF badfn THEN "gradient badfn" ELSE "gradient",
          !.fields = ResultFields(heap.called, heap.retTy, returns),
          !.extracts =
             {[what |-> "tape", idx |-> idx.tape]}                       \* 2915
             \cup {[what |-> "shadow", idx |-> idx.shadow] : b \in
                     {x \in {TRUE} : heap.placeholder /\ subcheck
                                     /\ hasNonReturnUse(heap.use)}}      \* 2935-2953
             \cup {[what |-> "return", idx |-> idx.ret] : b \in
                     {x \in {TRUE} : subretused /\ ~badfn}}]            \* 3158-3160
  /\ UNCHANGED <<bvars, diff, lmap, tape, sig, cfg>>

NextIdx == AugmentedExtracts \/ GradientExtracts
SpecIdx == InitIdx /\ [][NextIdx]_vars

RealIndex(e) == e.idx # Unset /\ e.idx \in 0..(heap.fields - 1)

\* C30: every index with which a call site extracts the tape, the primal
\* return or the shadow return from the result of an augmented call is a
\* real field index and never the unset sentinel, for direct and indirect
\* callees and float, pointer and void returns
C30_RealIndices == \A e \in heap.extracts : RealIndex(e)

\* the forward handler, and the reverse handler at every call that is not
\* an indirect call with a float result, use real indices
C30_RealIndicesElsewhere ==
  (heap.handler = "augmented" \/ heap.called \/ heap.retTy # "float") =>
     \A e \in heap.extracts : RealIndex(e)

====
